---- MODULE Spec2Model ----
(***************************************************************************)
(* Model of the confidence-driven exploration loop of browser-agent:       *)
(*   src/src/core/orchestrator.py         Orchestrator.learn, _learning_loop*)
(*   src/src/core/session.py              Session, ActionRecord            *)
(*   src/src/learning/confidence_scorer.py ConfidenceMetrics, Scorer       *)
(*   src/src/learning/memory_store.py     MemoryStore, LearnedPattern      *)
(*   src/src/intelligence/llm_client.py   LLMClient.decide_action          *)
(*   src/src/core/browser_agent.py        BrowserAgent.execute_action      *)
(*                                                                         *)
(* Scores are Python floats in the source; the model computes them as      *)
(* exact rationals <<numerator, denominator>> in lowest terms.             *)
(***************************************************************************)
EXTENDS Integers, Sequences, FiniteSets, TLC

VARIABLES
    max_iterations,     \* Config.max_iterations of this run
    threshold,          \* ConfidenceScorer.threshold, given at construction
    hashv,              \* hash(selector) of this process (PYTHONHASHSEED)
    pc,                 \* position of Orchestrator.learn
    iteration,          \* the for-loop variable of _learning_loop
    session,            \* the Session object
    explored_selectors, \* local set of _learning_loop
    page_state,         \* the PageState the loop currently holds
    metrics,            \* local ConfidenceMetrics of _learning_loop
    observation,        \* how the last get_page_state call ended
    response,           \* what the last provider call came back with
    action,             \* the Action returned by the last decide_action
    result,             \* the ActionResult of the last execute_action
    browser,            \* the BrowserAgent: launched, current url, call counts
    patterns,           \* MemoryStore._patterns, keyed by pattern id
    savedSession,       \* the session file written by Session.save
    sessionFiles,       \* the files of the sessions directory, keyed by id
    history,            \* how often the MemoryStore was called and rebuilt so
                        \* far (a record of the past, not program state)
    notifications,      \* what was handed to the EmailService, in order
    outcome,            \* what learn gives back to its caller
    loopExit,           \* how _learning_loop ended
    error,              \* the exception the except clause of learn caught
    observedUrls,       \* urls of the observations obtained so far
    patternFiles,       \* the pattern files on disk, keyed by pattern id
    llmCalls,           \* number of decide_action calls so far
    call,               \* arguments of a scorer function applied on its own
    ret                 \* its return value

vars == <<max_iterations, threshold, hashv, pc, iteration, session,
          explored_selectors, page_state, observation, metrics, response,
          action, result, browser, patterns, patternFiles, savedSession,
          notifications, outcome, loopExit, error, observedUrls, llmCalls,
          call, ret, sessionFiles, history>>

-----------------------------------------------------------------------------
(* Bounds of the model *)

MaxIter == 4
MaxElems == 1

\* Numbers of interactive elements an observation can report
ElementCounts == {0, MaxElems}

None == "None"
Selectors == {"#next", "#name"}
Domain == "example.com"
FirstUrl == 1
Thresholds == {<<1, 2>>}

-----------------------------------------------------------------------------
(* Exact rational arithmetic standing for the float arithmetic of the source *)

\* Each operator binds its arguments to their values once ({e} is evaluated, the
\* bound variable is a value), so nested uses are not evaluated again and again.
RECURSIVE GCD(_, _)
GCD(a, b) == IF b = 0 THEN a ELSE CHOOSE g \in {GCD(b, r) : r \in {a % b}} : TRUE

Norm(r) ==
    CHOOSE q \in {IF g = 0 THEN <<0, 1>> ELSE <<x[1] \div g, x[2] \div g>> :
                     x \in {r}, g \in {GCD(IF r[1] < 0 THEN -r[1] ELSE r[1], r[2])}} : TRUE

Frac(n, d) == Norm(<<n, d>>)
RAdd(a, b) ==
    CHOOSE q \in {Norm(<<x[1] * y[2] + y[1] * x[2], x[2] * y[2]>>) :
                     x \in {a}, y \in {b}} : TRUE
RMul(a, b) ==
    CHOOSE q \in {Norm(<<x[1] * y[1], x[2] * y[2]>>) : x \in {a}, y \in {b}} : TRUE
RLeq(a, b) == \E x \in {a}, y \in {b} : x[1] * y[2] <= y[1] * x[2]
RLess(a, b) == \E x \in {a}, y \in {b} : x[1] * y[2] < y[1] * x[2]
RMin(a, b) == CHOOSE q \in {IF RLeq(x, y) THEN x ELSE y : x \in {a}, y \in {b}} : TRUE
Zero == <<0, 1>>
One == <<1, 1>>

Truthy_NotNone(x) == x # None

\* truth value of an Optional[str]: None and the empty string are false
Truthy(x) == x # None /\ x # ""

SetOfSeq(s) == {s[i] : i \in 1..Len(s)}
Successes(s) == Cardinality({i \in 1..Len(s) : s[i].success})

-----------------------------------------------------------------------------
(* Session and ActionRecord: src/src/core/session.py *)

ActionRecord_Optimistic(a, r, ps) ==
    [action_type |-> a.type, selector |-> a.selector, value |-> a.value,
     reasoning |-> a.reasoning, success |-> TRUE, page_url |-> ps.url]

\* orchestrator.py lines 147-157: the record built from the action, the
\* executor's result and the page state the decision was made on
ActionRecord(a, r, ps) ==
    [action_type |-> a.type, selector |-> a.selector, value |-> a.value,
     reasoning |-> a.reasoning, success |-> r.success, page_url |-> ps.url]

\* datetime.isoformat and datetime.fromisoformat: a time (seconds) written
\* as the text "MM:SS", held as the pair of its two numbers, and read back
isoformat(t) == <<t \div 60, t % 60>>
fromisoformat(text) == text[1] * 60 + text[2]

\* str(uuid.uuid4())[:8]
SessionIds == {"0a1b2c3d", "4e5f6a7b"}

Session_create_Completed(url, id, now) ==
    [session_id |-> id, target_url |-> url, created_at |-> isoformat(now),
     status |-> "completed", actions |-> <<>>, confidence_score |-> Zero,
     total_elements_found |-> 0, elements_explored |-> 0, metadata |-> <<>>]

\* Session.create, lines 57-64, id the uuid drawn and now the clock reading;
\* the other fields take the dataclass defaults of lines 47-55
Session_create(url, id, now) ==
    [session_id |-> id, target_url |-> url, created_at |-> isoformat(now),
     status |-> "active", actions |-> <<>>, confidence_score |-> Zero,
     total_elements_found |-> 0, elements_explored |-> 0, metadata |-> <<>>]

Session_save_Stale(s) == [s EXCEPT !.status = "active"]

\* Session.save, lines 90-95: the file holds to_dict() of the session as it is
\* at the call
Session_save(s) == s

add_action_Prepend(s, rec) == [s EXCEPT !.actions = <<rec>> \o @]

\* Session.add_action, lines 66-68: self.actions.append(action)
add_action(s, rec) == [s EXCEPT !.actions = Append(@, rec)]

success_rate(s) ==
    IF s.actions = <<>> THEN Zero
    ELSE Frac(Successes(s.actions), Len(s.actions))

-----------------------------------------------------------------------------
(* ConfidenceMetrics and ConfidenceScorer: src/src/learning/confidence_scorer.py *)

MIN_PAGES_REQUIRED == 4
STABILITY_MIN_ACTIONS == 5
RECENT_WINDOW == 10

ConfidenceMetrics(c, s, p, e) ==
    [coverage_score |-> c, success_rate |-> s, pattern_stability |-> p,
     exploration_depth |-> e]

weighted_score_EqualWeights(m) ==
    RMul(RAdd(RAdd(m.coverage_score, m.success_rate),
              RAdd(m.pattern_stability, m.exploration_depth)), <<25, 100>>)

weighted_score(m) ==
    RAdd(RAdd(RAdd(RMul(m.coverage_score, <<30, 100>>),
                   RMul(m.success_rate, <<25, 100>>)),
              RMul(m.pattern_stability, <<25, 100>>)),
         RMul(m.exploration_depth, <<20, 100>>))

Recent(s) ==
    LET n == Len(s.actions)
    IN  IF n <= RECENT_WINDOW THEN s.actions
        ELSE SubSeq(s.actions, n - RECENT_WINDOW + 1, n)

calculate_pattern_stability_WholeHistory(s) ==
    IF Len(s.actions) < STABILITY_MIN_ACTIONS THEN <<3, 10>>
    ELSE LET action_types == {a.action_type : a \in SetOfSeq(s.actions)}
             variety_bonus == RMin(Frac(Cardinality(action_types), 4), <<3, 10>>)
         IN  RMin(RAdd(success_rate(s), variety_bonus), One)

calculate_pattern_stability(s) ==
    IF Len(s.actions) < STABILITY_MIN_ACTIONS THEN <<3, 10>>
    ELSE LET recent == Recent(s)
             recent_success_rate ==
                 Frac(Successes(recent), Len(recent))
             action_types == {a.action_type : a \in SetOfSeq(s.actions)}
             variety_bonus == RMin(Frac(Cardinality(action_types), 4), <<3, 10>>)
         IN  RMin(RAdd(recent_success_rate, variety_bonus), One)

unique_urls(s) == {a.page_url : a \in SetOfSeq(s.actions)}

unique_selectors(s) ==
    {a.selector : a \in {b \in SetOfSeq(s.actions) : Truthy(b.selector)}}

calculate_exploration_depth_CountsBlank(s) ==
    IF s.actions = <<>> THEN Zero
    ELSE LET url_score == RMin(Frac(Cardinality(unique_urls(s)), 5), <<1, 2>>)
             all_selectors == {a.selector : a \in SetOfSeq(s.actions)}
             selector_score ==
                 RMin(Frac(Cardinality(all_selectors), 20), <<1, 2>>)
         IN  RAdd(url_score, selector_score)

calculate_exploration_depth(s) ==
    IF s.actions = <<>> THEN Zero
    ELSE LET url_score == RMin(Frac(Cardinality(unique_urls(s)), 5), <<1, 2>>)
             selector_score ==
                 RMin(Frac(Cardinality(unique_selectors(s)), 20), <<1, 2>>)
         IN  RAdd(url_score, selector_score)

update_Unclamped(s) ==
    LET coverage == IF s.total_elements_found > 0
                    THEN Frac(s.elements_explored, s.total_elements_found)
                    ELSE Zero
    IN  ConfidenceMetrics(coverage, success_rate(s),
                          calculate_pattern_stability(s),
                          calculate_exploration_depth(s))

update_FullWhenNoneFound(s) ==
    LET coverage == IF s.total_elements_found > 0
                    THEN Frac(s.elements_explored, s.total_elements_found)
                    ELSE One
    IN  ConfidenceMetrics(RMin(coverage, One), success_rate(s),
                          calculate_pattern_stability(s),
                          calculate_exploration_depth(s))

update(s) ==
    LET coverage == IF s.total_elements_found > 0
                    THEN Frac(s.elements_explored, s.total_elements_found)
                    ELSE Zero
    IN  ConfidenceMetrics(RMin(coverage, One), success_rate(s),
                          calculate_pattern_stability(s),
                          calculate_exploration_depth(s))

is_learning_complete_NoFloor(th, m, unique_pages) ==
    RLeq(th, weighted_score(m))

is_learning_complete_Strict(th, m, unique_pages) ==
    IF unique_pages < MIN_PAGES_REQUIRED THEN FALSE
    ELSE RLess(th, weighted_score(m))

is_learning_complete(th, m, unique_pages) ==
    IF unique_pages < MIN_PAGES_REQUIRED THEN FALSE
    ELSE RLeq(th, weighted_score(m))

-----------------------------------------------------------------------------
(* Action and LLMClient.decide_action: src/src/intelligence/llm_client.py *)

Get(d, k, default) == IF k \in DOMAIN d THEN d[k] ELSE default

\* Texts are sequences of pieces, so that a text built from another one
\* (f"Error occurred: {str(e)}. Waiting before retry.") contains it.
Action_from_dict(data) ==
    [type |-> Get(data, "action", "wait"),
     selector |-> Get(data, "selector", None),
     value |-> Get(data, "value", None),
     reasoning |-> Get(data, "reasoning", <<>>),
     confidence |-> Get(data, "confidence", <<1, 2>>)]

FallbackAction(err) ==
    [type |-> "wait", selector |-> None, value |-> "1",
     reasoning |-> <<"Error occurred: ", err, ". Waiting before retry.">>,
     confidence |-> Zero]

\* What the provider call can come back with: a JSON object, or an exception
\* raised by _call_llm (transport) or by _parse_json_response (unparsable
\* text), of which only str(e) is used.
LLMData ==
    {[action |-> "click", selector |-> "#next", reasoning |-> <<"explore">>],
     [action |-> "type", selector |-> "#name", value |-> "x",
      reasoning |-> <<"explore">>],
     [action |-> "click", selector |-> "", reasoning |-> <<"explore">>],
     [action |-> "complete", reasoning |-> <<"done">>]}

LLMErrors == {"timed out"}

LLMResponses ==
    {[ok |-> TRUE, data |-> d, error |-> ""] : d \in LLMData}
    \cup {[ok |-> FALSE, data |-> <<>>, error |-> e] : e \in LLMErrors}

decide_action_Defaults(resp) ==
    IF resp.ok THEN Action_from_dict(resp.data) ELSE Action_from_dict(<<>>)

decide_action(resp) ==
    IF resp.ok THEN Action_from_dict(resp.data) ELSE FallbackAction(resp.error)

NoResponse == [ok |-> TRUE, data |-> <<>>, error |-> ""]
NoAction == [type |-> "none", selector |-> None, value |-> None,
             reasoning |-> <<>>, confidence |-> Zero]

-----------------------------------------------------------------------------
(* BrowserAgent: src/src/core/browser_agent.py *)

NoUrl == 0

Browser_init == [launched |-> FALSE, url |-> NoUrl, pages |-> 0,
                 executeCalls |-> 0, closeCalls |-> 0]

ActionResult(ok, url) == [success |-> ok, new_url |-> url]
NoResult == [success |-> FALSE, new_url |-> NoUrl]

\* The explored site is a multi-page form: a click that succeeds leads to a page
\* not seen before (pages are numbered in the order the browser reaches them).
UrlsAfter(b) == {b.pages + 1}

\* Elements of the explored site whose interaction can raise (the button stays
\* disabled until the form is valid); the other elements always respond.
Flaky == {"#next"}
Raises(a) == IF a.selector \in Flaky THEN {ActionResult(FALSE, NoUrl)} ELSE {}

\* execute_action: the set of results the executor can report for an action.
\* Every exception raised under its try is reported as success = False.
execute_action(b, a) ==
    CASE a.type = "click" ->
           IF ~Truthy(a.selector) THEN {ActionResult(FALSE, NoUrl)}
           ELSE {ActionResult(TRUE, u) : u \in UrlsAfter(b)} \cup Raises(a)
      [] a.type = "type" ->
           IF ~Truthy(a.selector) \/ a.value = None
           THEN {ActionResult(FALSE, NoUrl)}
           ELSE {ActionResult(TRUE, NoUrl)} \cup Raises(a)
      [] a.type = "scroll" -> {ActionResult(TRUE, NoUrl)}
      [] a.type = "hover" ->
           IF ~Truthy(a.selector) THEN {ActionResult(FALSE, NoUrl)}
           ELSE {ActionResult(TRUE, NoUrl)} \cup Raises(a)
      [] a.type = "wait" -> {ActionResult(TRUE, NoUrl)}
      [] a.type = "navigate" ->
           IF ~Truthy(a.value) THEN {ActionResult(FALSE, NoUrl)}
           ELSE {ActionResult(TRUE, u) : u \in UrlsAfter(b)}
      [] OTHER -> {ActionResult(FALSE, NoUrl)}

-----------------------------------------------------------------------------
(* LearnedPattern and MemoryStore: src/src/learning/memory_store.py *)

HASH_MOD == 10000

\* add[s]: outcomes handed to add_pattern_from_action for selector s;
\* record: record_success and record_failure calls that raised a counter;
\* restarts: MemoryStores built after the first
NoHistory == [add |-> [s \in Selectors |-> 0], record |-> 0, restarts |-> 0]

pattern_id(domain, selector) == <<domain, hashv[selector] % HASH_MOD>>

LearnedPattern(id, domain, element_type, selector, action_type) ==
    [pattern_id |-> id, domain |-> domain, element_type |-> element_type,
     selector_pattern |-> selector, action_sequence |-> <<action_type>>,
     success_count |-> 0, failure_count |-> 0]

pattern_after_CountsSuccess(P, domain, element_type, selector, action_type, success) ==
    LET id == pattern_id(domain, selector)
        p == IF id \in DOMAIN P THEN P[id]
             ELSE LearnedPattern(id, domain, element_type, selector, action_type)
    IN  [p EXCEPT !.success_count = @ + 1]

\* The record add_pattern_from_action passes to save_pattern.
pattern_after(P, domain, element_type, selector, action_type, success) ==
    LET id == pattern_id(domain, selector)
        p == IF id \in DOMAIN P THEN P[id]
             ELSE LearnedPattern(id, domain, element_type, selector, action_type)
    IN  IF success THEN [p EXCEPT !.success_count = @ + 1]
        ELSE [p EXCEPT !.failure_count = @ + 1]

Put_Alone(P, p) == (p.pattern_id :> p)

\* save_pattern, line 80: self._patterns[pattern.pattern_id] = pattern
Put(P, p) == (p.pattern_id :> p) @@ P

-----------------------------------------------------------------------------
(* Orchestrator.learn and _learning_loop: src/src/core/orchestrator.py *)

NoSession == [status |-> "none", actions |-> <<>>, confidence_score |-> Zero,
              total_elements_found |-> 0, elements_explored |-> 0]
NoOutcome == [kind |-> "none", success |-> FALSE,
              metrics |-> ConfidenceMetrics(Zero, Zero, Zero, Zero), report |-> ""]
LearningResult(ok, m, report) ==
    [kind |-> "result", success |-> ok, metrics |-> m, report |-> report]
Raised == [kind |-> "raised", success |-> FALSE,
           metrics |-> ConfidenceMetrics(Zero, Zero, Zero, Zero), report |-> ""]
NoCall == [fn |-> "none"]

\* hash() of the selectors in one process
HashChoices == {[s \in Selectors |-> IF s = "#next" THEN 271828 ELSE 314159]}

Init ==
    /\ max_iterations \in 0..MaxIter
    /\ threshold \in Thresholds
    /\ hashv \in HashChoices
    /\ pc = "launch"
    /\ iteration = 0
    /\ session = Session_create(FirstUrl, "0a1b2c3d", 0)
    /\ explored_selectors = {}
    /\ page_state = [url |-> NoUrl]
    /\ observation = "none"
    /\ metrics = ConfidenceMetrics(Zero, Zero, Zero, Zero)
    /\ response = NoResponse
    /\ action = NoAction
    /\ result = NoResult
    /\ browser = Browser_init
    /\ patterns = <<>>
    /\ patternFiles = <<>>
    /\ history = NoHistory
    /\ savedSession = NoSession
    /\ sessionFiles = <<>>
    /\ notifications = <<>>
    /\ outcome = NoOutcome
    /\ loopExit = "none"
    /\ error = "none"
    /\ observedUrls = {}
    /\ llmCalls = 0
    /\ call = NoCall
    /\ ret = FALSE

config == <<max_iterations, threshold, hashv>>
scorerCall == <<call, ret>>

\* line 55: await self.browser.launch()
Launch ==
    /\ pc = "launch"
    /\ \/ /\ browser' = [browser EXCEPT !.launched = TRUE]
          /\ pc' = "navigate"
          /\ error' = error
       \/ /\ pc' = "except"
          /\ error' = "launch"
          /\ browser' = browser
    /\ UNCHANGED <<config, sessionFiles, iteration, session,
                   explored_selectors, page_state, metrics, observation,
                   response, action, result, patterns, patternFiles,
                   savedSession, notifications, outcome, loopExit,
                   observedUrls, llmCalls, scorerCall, history>>

\* lines 56-60: the initial navigation and the counters seeded from it
Navigate ==
    /\ pc = "navigate"
    /\ \/ /\ \E n \in ElementCounts :
                session' = [session EXCEPT !.total_elements_found = n]
          /\ browser' = [browser EXCEPT !.url = FirstUrl, !.pages = 1]
          /\ page_state' = [url |-> FirstUrl]
          /\ observation' = "ok"
          /\ observedUrls' = {FirstUrl}
          /\ pc' = "loop"
          /\ error' = error
       \/ /\ pc' = "except"
          /\ error' = "navigate"
          /\ UNCHANGED <<session, browser, page_state, observation,
                         observedUrls>>
    /\ UNCHANGED <<config, sessionFiles, iteration, explored_selectors,
                   metrics, response, action, result, patterns, patternFiles,
                   savedSession, notifications, outcome, loopExit, llmCalls,
                   scorerCall, history>>

LoopRunsWhile_Inclusive == iteration <= max_iterations

\* line 116: for iteration in range(self.config.max_iterations)
LoopRuns == iteration < max_iterations

\* lines 116-137: the loop head, the prompt and the decision
Decide ==
    /\ pc = "loop"
    /\ LoopRuns
    /\ \E resp \in LLMResponses :
         LET a == decide_action(resp)
         IN  /\ response' = resp
             /\ action' = a
             /\ llmCalls' = llmCalls + 1
             /\ IF a.type = "complete"
                THEN pc' = "finish" /\ loopExit' = "complete"
                ELSE pc' = "execute" /\ loopExit' = loopExit
    /\ UNCHANGED <<config, sessionFiles, iteration, session,
                   explored_selectors, page_state, observation, metrics,
                   result, browser, patterns, patternFiles, savedSession,
                   notifications, outcome, error, observedUrls, scorerCall,
                   history>>

\* line 116 with the range used up, line 197
Exhausted ==
    /\ pc = "loop"
    /\ ~LoopRuns
    /\ pc' = "finish"
    /\ loopExit' = "exhausted"
    /\ UNCHANGED <<config, sessionFiles, iteration, session,
                   explored_selectors, page_state, metrics, observation,
                   response, action, result, browser, patterns, patternFiles,
                   savedSession, notifications, outcome, error, observedUrls,
                   llmCalls, scorerCall, history>>

AfterExecute_DecidesNext == "loop"

\* lines 139-146: the statement after the awaited execute_action builds the
\* ActionRecord
AfterExecute == "record"

\* lines 139-144: await self.browser.execute_action(...)
Execute ==
    /\ pc = "execute"
    /\ \E r \in execute_action(browser, action) :
         /\ result' = r
         /\ browser' = [browser EXCEPT
                          !.executeCalls = @ + 1,
                          !.url = IF r.new_url = NoUrl THEN @ ELSE r.new_url,
                          !.pages = IF r.new_url > @ THEN r.new_url ELSE @]
    /\ pc' = AfterExecute
    /\ UNCHANGED <<config, sessionFiles, iteration, session,
                   explored_selectors, page_state, metrics, observation,
                   response, action, patterns, patternFiles, savedSession,
                   notifications, outcome, loopExit, error, observedUrls,
                   llmCalls, scorerCall, history>>

RecordedUrl_AfterAction == browser.url

\* line 154: page_url=page_state.url
RecordedUrl == page_state.url

\* lines 146-162: the record, the explored set and the counter
Recorded ==
    LET rec == [ActionRecord(action, result, page_state) EXCEPT !.page_url = RecordedUrl]
        ex == IF Truthy(action.selector)
              THEN explored_selectors \cup {action.selector}
              ELSE explored_selectors
        s1 == add_action(session, rec)
    IN  [session |-> IF Truthy(action.selector)
                     THEN [s1 EXCEPT !.elements_explored = Cardinality(ex)]
                     ELSE s1,
         explored |-> ex]

\* lines 146-162: Recording: the ActionRecord, the explored set, the counter
Record ==
    /\ pc = "record"
    /\ session' = Recorded.session
    /\ explored_selectors' = Recorded.explored
    /\ pc' = "memory"
    /\ UNCHANGED <<config, sessionFiles, iteration, page_state, metrics,
                   observation, response, action, result, browser, patterns,
                   patternFiles, savedSession, notifications, outcome,
                   loopExit, error, observedUrls, llmCalls, scorerCall,
                   history>>

\* lines 164-172: memory.add_pattern_from_action(...) when a selector was used;
\* save_pattern (memory_store.py 78-84) stores the record in memory, then
\* writes its file, and the write can raise
Remember ==
    /\ pc = "memory"
    /\ IF ~Truthy(action.selector)
       THEN /\ pc' = "score"
            /\ UNCHANGED <<patterns, patternFiles, error, loopExit, history>>
       ELSE LET p == pattern_after(patterns, Domain, action.type, action.selector,
                                   action.type, result.success)
            IN  /\ patterns' = Put(patterns, p)
                /\ history' = [history EXCEPT !.add[action.selector] = @ + 1]
                /\ \/ /\ patternFiles' = Put(patternFiles, p)
                      /\ pc' = "score"
                      /\ UNCHANGED <<error, loopExit>>
                   \/ /\ patternFiles' = patternFiles
                      /\ pc' = "except"
                      /\ error' = "pattern_write"
                      /\ loopExit' = "exception"
    /\ UNCHANGED <<config, sessionFiles, iteration, session,
                   explored_selectors, page_state, metrics, observation,
                   response, action, result, browser, savedSession,
                   notifications, outcome, observedUrls, llmCalls, scorerCall>>

\* lines 174-182: Scoring and the stopping rule
Score ==
    /\ pc = "score"
    /\ LET m == update(session)
           pages == Cardinality(unique_urls(session))
           stop == is_learning_complete(threshold, m, pages)
       IN  /\ metrics' = m
           /\ session' = [session EXCEPT !.confidence_score = weighted_score(m)]
           /\ call' = [fn |-> "is_learning_complete", metrics |-> m,
                       unique_pages |-> pages, threshold |-> threshold]
           /\ ret' = stop
           /\ IF stop
              THEN pc' = "finish" /\ loopExit' = "stopping"
              ELSE pc' = "observe" /\ loopExit' = loopExit
    /\ UNCHANGED <<config, sessionFiles, iteration, explored_selectors,
                   page_state, observation, response, action, result, browser,
                   patterns, patternFiles, savedSession, notifications,
                   outcome, error, observedUrls, llmCalls, history>>

total_elements_after_Latest(total, new_count) == new_count

\* lines 188-190: if new_count > session.total_elements_found: ... = new_count
total_elements_after(total, new_count) ==
    IF new_count > total THEN new_count ELSE total

\* lines 185-190: get_page_state returned: the new page state, the counter
ObserveOk ==
    /\ page_state' = [url |-> browser.url]
    /\ observation' = "ok"
    /\ observedUrls' = observedUrls \cup {browser.url}
    /\ \E new_count \in ElementCounts :
          session' = [session EXCEPT !.total_elements_found =
                         total_elements_after(@, new_count)]
    /\ pc' = "sleep"
    /\ UNCHANGED <<error, loopExit, history>>

ObserveFailed_Aborts ==
    /\ observation' = "failed"
    /\ pc' = "except"
    /\ error' = "observe"
    /\ loopExit' = "exception"
    /\ UNCHANGED <<page_state, observedUrls, session, history>>

\* lines 191-192: except Exception: logger.warning(...); nothing is assigned
ObserveFailed ==
    /\ observation' = "failed"
    /\ pc' = "sleep"
    /\ UNCHANGED <<page_state, observedUrls, session, error, loopExit,
                   history>>

\* lines 184-192: the next observation, kept as it was when the capture fails
Observe ==
    /\ pc = "observe"
    /\ (ObserveOk \/ ObserveFailed)
    /\ UNCHANGED <<config, sessionFiles, iteration, explored_selectors,
                   metrics, response, action, result, browser, patterns,
                   patternFiles, savedSession, notifications, outcome,
                   llmCalls, scorerCall, history>>

\* line 195: await asyncio.sleep(...), then the next value of the range
Sleep ==
    /\ pc = "sleep"
    /\ iteration' = iteration + 1
    /\ pc' = "loop"
    /\ UNCHANGED <<config, sessionFiles, session, explored_selectors,
                   page_state, metrics, observation, response, action, result,
                   browser, patterns, patternFiles, savedSession,
                   notifications, outcome, loopExit, error, observedUrls,
                   llmCalls, scorerCall, history>>

\* line 72: self.scorer.is_learning_complete(metrics), unique_pages defaulted to 1
Report == IF is_learning_complete(threshold, metrics, 1) THEN "summary" ELSE ""

\* lines 65-74: the loop returned; mark, persist, build the report
Finish ==
    /\ pc = "finish"
    /\ LET s1 == [session EXCEPT !.status = "completed",
                                 !.confidence_score = weighted_score(metrics)]
       IN  /\ session' = s1
           /\ \/ /\ savedSession' = Session_save(s1)
                 /\ pc' = "notify_complete"
                 /\ error' = error
              \/ /\ savedSession' = savedSession
                 /\ pc' = "except"
                 /\ error' = "session_save"
    /\ UNCHANGED <<config, sessionFiles, iteration, explored_selectors,
                   page_state, metrics, observation, response, action, result,
                   browser, patterns, patternFiles, notifications, outcome,
                   loopExit, observedUrls, llmCalls, scorerCall, history>>

CompletedResult_IfDelivered(delivered) ==
    LearningResult(delivered, metrics, Report)

\* lines 77-85: the value send_learning_complete returns is discarded
CompletedResult(delivered) == LearningResult(TRUE, metrics, Report)

\* lines 76-85: await self.email.send_learning_complete(...), the result;
\* _send_email (email_service.py 166-191) returns False for every failure
NotifyComplete ==
    /\ pc = "notify_complete"
    /\ \E delivered \in BOOLEAN :
         /\ notifications' = Append(notifications,
               [kind |-> "complete", delivered |-> delivered, report |-> Report])
         /\ outcome' = CompletedResult(delivered)
    /\ pc' = "close"
    /\ UNCHANGED <<config, sessionFiles, iteration, session,
                   explored_selectors, page_state, observation, metrics,
                   response, action, result, browser, patterns, patternFiles,
                   savedSession, loopExit, error, observedUrls, llmCalls,
                   scorerCall, history>>

StatusOnExcept_Unset == session.status

\* line 89: session.status = "failed"
StatusOnExcept == "failed"

AfterHandlerRaise_NoFinally == "raised"

\* lines 102-103: the finally clause runs before the exception raised inside
\* the except clause leaves learn
AfterHandlerRaise == "close"

\* lines 87-90: the except clause: mark failed, persist
Except ==
    /\ pc = "except"
    /\ LET s1 == [session EXCEPT !.status = StatusOnExcept]
       IN  /\ session' = s1
           /\ \/ /\ savedSession' = Session_save(s1)
                 /\ pc' = "notify_error"
                 /\ outcome' = outcome
              \/ /\ savedSession' = savedSession
                 /\ pc' = AfterHandlerRaise
                 /\ outcome' = Raised
    /\ UNCHANGED <<config, sessionFiles, iteration, explored_selectors,
                   page_state, metrics, observation, response, action, result,
                   browser, patterns, patternFiles, notifications, loopExit,
                   error, observedUrls, llmCalls, scorerCall, history>>

\* lines 92-100: await self.email.send_error_alert(...), the failure result
NotifyError ==
    /\ pc = "notify_error"
    /\ \E delivered \in BOOLEAN :
         notifications' = Append(notifications,
             [kind |-> "error", delivered |-> delivered, report |-> error])
    /\ outcome' = LearningResult(FALSE, ConfidenceMetrics(Zero, Zero, Zero, Zero), "")
    /\ pc' = "close"
    /\ UNCHANGED <<config, sessionFiles, iteration, session,
                   explored_selectors, page_state, metrics, observation,
                   response, action, result, browser, patterns, patternFiles,
                   savedSession, loopExit, error, observedUrls, llmCalls,
                   scorerCall, history>>

\* lines 102-103: finally: await self.browser.close(), then the pending return
\* value or exception goes to the caller
Close ==
    /\ pc = "close"
    /\ browser' = [browser EXCEPT !.closeCalls = @ + 1]
    /\ pc' = IF outcome.kind = "result" THEN "returned" ELSE "raised"
    /\ UNCHANGED <<config, sessionFiles, iteration, session,
                   explored_selectors, page_state, metrics, observation,
                   response, action, result, patterns, patternFiles,
                   savedSession, notifications, outcome, loopExit, error,
                   observedUrls, llmCalls, scorerCall, history>>

Next ==
    \/ Launch \/ Navigate \/ Decide \/ Exhausted \/ Execute \/ Record
    \/ Remember \/ Score \/ Observe \/ Sleep \/ Finish \/ NotifyComplete
    \/ Except \/ NotifyError \/ Close

Spec == Init /\ [][Next]_vars

\* The loop is one thread of control and every awaited call returns.
FairSpec == Spec /\ WF_vars(Next)

Terminated == pc \in {"returned", "raised"}

-----------------------------------------------------------------------------
(* ConfidenceScorer.is_learning_complete called on its own:
   src/src/learning/confidence_scorer.py lines 109-131 *)

MaxPages == 5
SubScores == {Zero, <<1, 2>>, One}
StopThresholds == {Zero, <<1, 2>>, <<17, 20>>, <<19, 20>>, One}

StopInit ==
    /\ max_iterations = 0
    /\ threshold \in StopThresholds
    /\ hashv \in HashChoices
    /\ pc = "call"
    /\ iteration = 0
    /\ session = NoSession
    /\ explored_selectors = {}
    /\ page_state = [url |-> NoUrl]
    /\ observation = "none"
    /\ metrics = ConfidenceMetrics(Zero, Zero, Zero, Zero)
    /\ response = NoResponse
    /\ action = NoAction
    /\ result = NoResult
    /\ browser = Browser_init
    /\ patterns = <<>>
    /\ patternFiles = <<>>
    /\ history = NoHistory
    /\ savedSession = NoSession
    /\ sessionFiles = <<>>
    /\ notifications = <<>>
    /\ outcome = NoOutcome
    /\ loopExit = "none"
    /\ error = "none"
    /\ observedUrls = {}
    /\ llmCalls = 0
    /\ \E c, s, p, e \in SubScores, n \in 0..MaxPages :
          call = [fn |-> "is_learning_complete",
                  metrics |-> ConfidenceMetrics(c, s, p, e),
                  unique_pages |-> n, threshold |-> threshold]
    /\ ret = FALSE

\* scorer.is_learning_complete(metrics, unique_pages) returns
ApplyStoppingRule ==
    /\ pc = "call"
    /\ ret' = is_learning_complete(call.threshold, call.metrics, call.unique_pages)
    /\ pc' = "ret"
    /\ UNCHANGED <<config, sessionFiles, iteration, session,
                   explored_selectors, page_state, metrics, observation,
                   response, action, result, browser, patterns, patternFiles,
                   savedSession, notifications, outcome, loopExit, error,
                   observedUrls, llmCalls, call, history>>

StopNext == ApplyStoppingRule

StopSpec == StopInit /\ [][StopNext]_vars

-----------------------------------------------------------------------------
(* ConfidenceScorer.update applied to sessions of any history and counters:
   src/src/learning/confidence_scorer.py lines 46-107 *)

MaxActions == 11
MaxExplored == 2
MaxTotal == 3

\* the records a history is made of: a successful action with a selector on
\* one page, a failed action without selector on another
ScoreRecords ==
    {[action_type |-> "click", selector |-> "#next", value |-> None,
      reasoning |-> <<"explore">>, success |-> TRUE, page_url |-> 1],
     [action_type |-> "wait", selector |-> None, value |-> "1",
      reasoning |-> <<"explore">>, success |-> FALSE, page_url |-> 2]}

ScoreInit ==
    /\ pc = "score"
    /\ \E total \in 0..MaxTotal, explored \in 0..MaxExplored :
          session = [Session_create(FirstUrl, "0a1b2c3d", 0) EXCEPT
                        !.total_elements_found = total,
                        !.elements_explored = explored]
    /\ metrics = ConfidenceMetrics(Zero, Zero, Zero, Zero)
    /\ max_iterations = 0
    /\ threshold \in Thresholds
    /\ hashv \in HashChoices
    /\ iteration = 0
    /\ explored_selectors = {}
    /\ page_state = [url |-> NoUrl]
    /\ observation = "none"
    /\ response = NoResponse
    /\ action = NoAction
    /\ result = NoResult
    /\ browser = Browser_init
    /\ patterns = <<>>
    /\ patternFiles = <<>>
    /\ history = NoHistory
    /\ savedSession = NoSession
    /\ sessionFiles = <<>>
    /\ notifications = <<>>
    /\ outcome = NoOutcome
    /\ loopExit = "none"
    /\ error = "none"
    /\ observedUrls = {}
    /\ llmCalls = 0
    /\ call = NoCall
    /\ ret = FALSE

\* session.add_action(record); metrics = scorer.update(session)
AppendAndUpdate ==
    /\ pc = "score"
    /\ Len(session.actions) < MaxActions
    /\ \E rec \in ScoreRecords :
          LET s1 == add_action(session, rec)
          IN  /\ session' = s1
              /\ metrics' = update(s1)
    /\ UNCHANGED <<config, sessionFiles, pc, iteration, explored_selectors,
                   page_state, observation, response, action, result, browser,
                   patterns, patternFiles, savedSession, notifications,
                   outcome, loopExit, error, observedUrls, llmCalls,
                   scorerCall, history>>

ScoreNext == AppendAndUpdate

ScoreSpec == ScoreInit /\ [][ScoreNext]_vars

-----------------------------------------------------------------------------
(* ConfidenceMetrics.weighted_score applied to sub-scores of [0,1]:
   src/src/learning/confidence_scorer.py lines 21-35 *)

ScoreGrid == {Zero, <<3, 5>>, <<7, 10>>, <<4, 5>>, <<9, 10>>, One}

WeightInit ==
    /\ pc = "call"
    /\ session = NoSession
    /\ \E c, s, p, e \in ScoreGrid : metrics = ConfidenceMetrics(c, s, p, e)
    /\ max_iterations = 0
    /\ threshold \in Thresholds
    /\ hashv \in HashChoices
    /\ iteration = 0
    /\ explored_selectors = {}
    /\ page_state = [url |-> NoUrl]
    /\ observation = "none"
    /\ response = NoResponse
    /\ action = NoAction
    /\ result = NoResult
    /\ browser = Browser_init
    /\ patterns = <<>>
    /\ patternFiles = <<>>
    /\ history = NoHistory
    /\ savedSession = NoSession
    /\ sessionFiles = <<>>
    /\ notifications = <<>>
    /\ outcome = NoOutcome
    /\ loopExit = "none"
    /\ error = "none"
    /\ observedUrls = {}
    /\ llmCalls = 0
    /\ call = NoCall
    /\ ret = FALSE

\* orchestrator.py line 176: session.confidence_score = metrics.weighted_score
ApplyWeightedScore ==
    /\ pc = "call"
    /\ session' = [session EXCEPT !.confidence_score = weighted_score(metrics)]
    /\ pc' = "ret"
    /\ UNCHANGED <<config, sessionFiles, iteration, explored_selectors,
                   page_state, observation, metrics, response, action, result,
                   browser, patterns, patternFiles, savedSession,
                   notifications, outcome, loopExit, error, observedUrls,
                   llmCalls, scorerCall, history>>

WeightNext == ApplyWeightedScore

WeightSpec == WeightInit /\ [][WeightNext]_vars

-----------------------------------------------------------------------------
(* ConfidenceScorer.update applied to sessions whose histories vary in the
   number of distinct page URLs and of distinct selectors:
   src/src/learning/confidence_scorer.py lines 46-77 and 94-107 *)

MaxUrls == 6
MaxSelectors == 11

DepthSelectors ==
    <<"#s1", "#s2", "#s3", "#s4", "#s5", "#s6", "#s7", "#s8", "#s9", "#s10",
      "#s11", "#s12", "#s13">>

Max(a, b) == IF a >= b THEN a ELSE b

\* a history with u distinct page URLs and s distinct selectors; the records
\* beyond the s-th carry the selector blank (None or ""), and rep further
\* records repeat the URL and the selector of the first
DepthHistory(u, s, blank, rep) ==
    [i \in 1..(Max(u, s) + rep) |->
        LET j == IF i > Max(u, s) THEN 1 ELSE i
        IN  [action_type |-> "click",
             selector |-> IF j <= s THEN DepthSelectors[j] ELSE blank,
             value |-> None,
             reasoning |-> <<"explore">>,
             success |-> TRUE,
             page_url |-> IF j <= u THEN j ELSE u]]

DepthInit ==
    /\ pc = "call"
    /\ \E u \in 0..MaxUrls, s \in 0..MaxSelectors, blank \in {None, ""},
          rep \in 0..1 :
          /\ u = 0 => (s = 0 /\ rep = 0)
          /\ session = [Session_create(FirstUrl, "0a1b2c3d", 0) EXCEPT
                            !.actions = DepthHistory(u, s, blank, rep)]
    /\ metrics = ConfidenceMetrics(Zero, Zero, Zero, Zero)
    /\ max_iterations = 0
    /\ threshold \in Thresholds
    /\ hashv \in HashChoices
    /\ iteration = 0
    /\ explored_selectors = {}
    /\ page_state = [url |-> NoUrl]
    /\ observation = "none"
    /\ response = NoResponse
    /\ action = NoAction
    /\ result = NoResult
    /\ browser = Browser_init
    /\ patterns = <<>>
    /\ patternFiles = <<>>
    /\ history = NoHistory
    /\ savedSession = NoSession
    /\ sessionFiles = <<>>
    /\ notifications = <<>>
    /\ outcome = NoOutcome
    /\ loopExit = "none"
    /\ error = "none"
    /\ observedUrls = {}
    /\ llmCalls = 0
    /\ call = NoCall
    /\ ret = FALSE

\* metrics = scorer.update(session)
ApplyUpdate ==
    /\ pc = "call"
    /\ metrics' = update(session)
    /\ pc' = "ret"
    /\ UNCHANGED <<config, sessionFiles, iteration, session,
                   explored_selectors, page_state, observation, response,
                   action, result, browser, patterns, patternFiles,
                   savedSession, notifications, outcome, loopExit, error,
                   observedUrls, llmCalls, scorerCall, history>>

DepthNext == ApplyUpdate

DepthSpec == DepthInit /\ [][DepthNext]_vars

-----------------------------------------------------------------------------
(* The stopping rule of an Orchestrator built without a configuration:
   Orchestrator.__init__ (src/src/core/orchestrator.py lines 36-44) takes
   Config() and hands its confidence_threshold (src/src/config.py line 33) to
   the ConfidenceScorer *)

\* confidence_threshold: float = 0.95
Config_confidence_threshold == <<19, 20>>

DefaultInit ==
    /\ max_iterations = 0
    /\ threshold = Config_confidence_threshold
    /\ hashv \in HashChoices
    /\ pc = "call"
    /\ iteration = 0
    /\ session = NoSession
    /\ explored_selectors = {}
    /\ page_state = [url |-> NoUrl]
    /\ observation = "none"
    /\ metrics = ConfidenceMetrics(Zero, Zero, Zero, Zero)
    /\ response = NoResponse
    /\ action = NoAction
    /\ result = NoResult
    /\ browser = Browser_init
    /\ patterns = <<>>
    /\ patternFiles = <<>>
    /\ history = NoHistory
    /\ savedSession = NoSession
    /\ sessionFiles = <<>>
    /\ notifications = <<>>
    /\ outcome = NoOutcome
    /\ loopExit = "none"
    /\ error = "none"
    /\ observedUrls = {}
    /\ llmCalls = 0
    /\ \E c, s, p, e \in ScoreGrid, n \in 0..MaxPages :
          call = [fn |-> "is_learning_complete",
                  metrics |-> ConfidenceMetrics(c, s, p, e),
                  unique_pages |-> n, threshold |-> threshold]
    /\ ret = FALSE

DefaultSpec == DefaultInit /\ [][StopNext]_vars

-----------------------------------------------------------------------------
(* A Session on its own: creation, appended records, the fields the
   orchestrator assigns, save and load through the JSON file of the sessions
   directory, and the two derived properties: src/src/core/session.py *)

MaxSessionActions == 2

SessionUrls == {FirstUrl, FirstUrl + 1}
CreationTimes == {61}

\* complete ActionRecords (lines 11-22), with clock readings on both sides of
\* a minute boundary
SessionRecords ==
    {[timestamp |-> isoformat(59), action_type |-> "click",
      selector |-> "#next", value |-> None, reasoning |-> <<"explore">>,
      success |-> TRUE, page_url |-> 1, screenshot_path |-> "shot.png"],
     [timestamp |-> isoformat(62), action_type |-> "type",
      selector |-> "#name", value |-> "x", reasoning |-> <<"fill">>,
      success |-> FALSE, page_url |-> 2, screenshot_path |-> None],
     [timestamp |-> isoformat(125), action_type |-> "wait",
      selector |-> None, value |-> "1", reasoning |-> <<"explore">>,
      success |-> TRUE, page_url |-> 2, screenshot_path |-> None]}

\* ActionRecord.to_dict, lines 24-35
ActionRecord_to_dict(a) ==
    [timestamp |-> a.timestamp, action_type |-> a.action_type,
     selector |-> a.selector, value |-> a.value, reasoning |-> a.reasoning,
     success |-> a.success, page_url |-> a.page_url,
     screenshot_path |-> a.screenshot_path]

\* ActionRecord.from_dict, lines 37-40: cls(**data), screenshot_path having
\* the default None
ActionRecord_from_dict(d) ==
    [timestamp |-> d.timestamp, action_type |-> d.action_type,
     selector |-> d.selector, value |-> d.value, reasoning |-> d.reasoning,
     success |-> d.success, page_url |-> d.page_url,
     screenshot_path |-> Get(d, "screenshot_path", None)]

Session_to_dict_NoMetadata(s) ==
    [session_id |-> s.session_id, target_url |-> s.target_url,
     created_at |-> s.created_at, status |-> s.status,
     actions |-> [i \in 1..Len(s.actions) |-> ActionRecord_to_dict(s.actions[i])],
     confidence_score |-> s.confidence_score,
     total_elements_found |-> s.total_elements_found,
     elements_explored |-> s.elements_explored]

\* Session.to_dict, lines 70-82
Session_to_dict(s) ==
    [session_id |-> s.session_id, target_url |-> s.target_url,
     created_at |-> s.created_at, status |-> s.status,
     actions |-> [i \in 1..Len(s.actions) |-> ActionRecord_to_dict(s.actions[i])],
     confidence_score |-> s.confidence_score,
     total_elements_found |-> s.total_elements_found,
     elements_explored |-> s.elements_explored,
     metadata |-> s.metadata]

\* Session.from_dict, lines 84-88: the records are rebuilt from
\* data.pop("actions", []) and the rest goes to cls(actions=actions, **data),
\* absent keys taking the dataclass defaults
Session_from_dict(d) ==
    LET actions_data == Get(d, "actions", <<>>)
    IN  [session_id |-> d.session_id, target_url |-> d.target_url,
         created_at |-> d.created_at,
         status |-> Get(d, "status", "active"),
         actions |-> [i \in 1..Len(actions_data) |->
                        ActionRecord_from_dict(actions_data[i])],
         confidence_score |-> Get(d, "confidence_score", Zero),
         total_elements_found |-> Get(d, "total_elements_found", 0),
         elements_explored |-> Get(d, "elements_explored", 0),
         metadata |-> Get(d, "metadata", <<>>)]

\* json.dump: the JSON text of a dict, each value written as null, a string,
\* a number, true, false, an array or an object according to its Python type
\* (here: to the type of the field of that name)
RECURSIVE json_dump(_)
json_value(k, v) ==
    CASE k \in {"selector", "value", "screenshot_path"} ->
            IF v = None THEN <<"null">> ELSE <<"string", v>>
      [] k \in {"confidence_score", "total_elements_found",
                "elements_explored"} -> <<"number", v>>
      [] k = "success" -> IF v THEN <<"true">> ELSE <<"false">>
      [] k = "actions" -> <<"array", [i \in 1..Len(v) |-> json_dump(v[i])]>>
      [] k = "metadata" -> json_dump(v)
      [] OTHER -> <<"string", v>>

json_dump(d) == <<"object", [k \in DOMAIN d |-> json_value(k, d[k])]>>

\* json.load: the Python value a JSON text stands for
RECURSIVE json_load(_)
json_load(j) ==
    CASE j[1] = "null" -> None
      [] j[1] = "true" -> TRUE
      [] j[1] = "false" -> FALSE
      [] j[1] = "array" -> [i \in 1..Len(j[2]) |-> json_load(j[2][i])]
      [] j[1] = "object" -> [k \in DOMAIN j[2] |-> json_load(j[2][k])]
      [] OTHER -> j[2]

\* Session.save, lines 90-95, on the directory: {session_id}.json is written
\* with json.dump(self.to_dict())
Session_save_file(files, s) ==
    (s.session_id :> json_dump(Session_to_dict(s))) @@ files

Session_load_BlankWhenMissing(files, id) ==
    IF id \in DOMAIN files
    THEN [ok |-> TRUE, session |-> Session_from_dict(json_load(files[id]))]
    ELSE [ok |-> TRUE, session |-> Session_create(FirstUrl, id, 0)]

\* Session.load, lines 97-102: open raises FileNotFoundError when there is no
\* file of that id
Session_load(files, id) ==
    IF id \in DOMAIN files
    THEN [ok |-> TRUE, session |-> Session_from_dict(json_load(files[id]))]
    ELSE [ok |-> FALSE, error |-> "FileNotFoundError"]

duration_seconds_FromCreation(s) ==
    IF Len(s.actions) < 2 THEN 0
    ELSE fromisoformat(s.actions[Len(s.actions)].timestamp)
            - fromisoformat(s.created_at)

\* Session.duration_seconds, lines 112-119
duration_seconds(s) ==
    IF Len(s.actions) < 2 THEN 0
    ELSE LET first == fromisoformat(s.actions[1].timestamp)
             last == fromisoformat(s.actions[Len(s.actions)].timestamp)
         IN  last - first

SessionInit ==
    /\ pc = "create"
    /\ session = NoSession
    /\ sessionFiles = <<>>
    /\ savedSession = NoSession
    /\ metrics = ConfidenceMetrics(Zero, Zero, Zero, Zero)
    /\ max_iterations = 0
    /\ threshold \in Thresholds
    /\ hashv \in HashChoices
    /\ iteration = 0
    /\ explored_selectors = {}
    /\ page_state = [url |-> NoUrl]
    /\ observation = "none"
    /\ response = NoResponse
    /\ action = NoAction
    /\ result = NoResult
    /\ browser = Browser_init
    /\ patterns = <<>>
    /\ patternFiles = <<>>
    /\ history = NoHistory
    /\ notifications = <<>>
    /\ outcome = NoOutcome
    /\ loopExit = "none"
    /\ error = "none"
    /\ observedUrls = {}
    /\ llmCalls = 0
    /\ call = NoCall
    /\ ret = FALSE

\* session = Session.create(url)
SessionCreate ==
    /\ pc = "create"
    /\ \E url \in SessionUrls, id \in SessionIds, now \in CreationTimes :
          /\ session' = Session_create(url, id, now)
          /\ call' = [fn |-> "create", url |-> url]
    /\ pc' = "use"
    /\ UNCHANGED <<config, sessionFiles, iteration, explored_selectors,
                   page_state, observation, metrics, response, action, result,
                   browser, patterns, patternFiles, savedSession,
                   notifications, outcome, loopExit, error, observedUrls,
                   llmCalls, ret, history>>

\* session.add_action(record)
SessionAddAction ==
    /\ pc = "use"
    /\ Len(session.actions) < MaxSessionActions
    /\ \E rec \in SessionRecords : session' = add_action(session, rec)
    /\ UNCHANGED <<config, sessionFiles, pc, iteration, explored_selectors,
                   page_state, observation, metrics, response, action, result,
                   browser, patterns, patternFiles, savedSession,
                   notifications, outcome, loopExit, error, observedUrls,
                   llmCalls, scorerCall, history>>

\* the assignments the orchestrator makes to a session in progress
\* (orchestrator.py lines 59-60, 162 and 176)
SessionProgress ==
    /\ pc = "use"
    /\ session.metadata = <<>>
    /\ session' = [session EXCEPT !.total_elements_found = 3,
                                  !.elements_explored = 2,
                                  !.confidence_score = <<1, 2>>,
                                  !.metadata = [initial_title |-> "Home"]]
    /\ UNCHANGED <<config, sessionFiles, pc, iteration, explored_selectors,
                   page_state, observation, metrics, response, action, result,
                   browser, patterns, patternFiles, savedSession,
                   notifications, outcome, loopExit, error, observedUrls,
                   llmCalls, scorerCall, history>>

\* orchestrator.py line 66: session.status = "completed"
SessionComplete ==
    /\ pc = "use"
    /\ session.status = "active"
    /\ session' = [session EXCEPT !.status = "completed"]
    /\ UNCHANGED <<config, sessionFiles, pc, iteration, explored_selectors,
                   page_state, observation, metrics, response, action, result,
                   browser, patterns, patternFiles, savedSession,
                   notifications, outcome, loopExit, error, observedUrls,
                   llmCalls, scorerCall, history>>

\* session.save(sessions_dir); savedSession keeps the session as it was at
\* this call
SessionSave ==
    /\ pc = "use"
    /\ sessionFiles' = Session_save_file(sessionFiles, session)
    /\ savedSession' = session
    /\ UNCHANGED <<config, pc, iteration, session, explored_selectors,
                   page_state, observation, metrics, response, action, result,
                   browser, patterns, patternFiles, notifications, outcome,
                   loopExit, error, observedUrls, llmCalls, scorerCall,
                   history>>

\* Session.load(id, sessions_dir)
SessionLoad ==
    /\ pc = "use"
    /\ \E id \in SessionIds :
          LET r == Session_load(sessionFiles, id)
          IN  /\ call' = [fn |-> "load", id |-> id]
              /\ ret' = r
              /\ pc' = IF r.ok THEN "ret" ELSE "raised"
    /\ UNCHANGED <<config, sessionFiles, iteration, session,
                   explored_selectors, page_state, observation, metrics,
                   response, action, result, browser, patterns, patternFiles,
                   savedSession, notifications, outcome, loopExit, error,
                   observedUrls, llmCalls, history>>

\* session.success_rate
SessionSuccessRate ==
    /\ pc = "use"
    /\ call' = [fn |-> "success_rate"]
    /\ ret' = success_rate(session)
    /\ pc' = "ret"
    /\ UNCHANGED <<config, sessionFiles, iteration, session,
                   explored_selectors, page_state, observation, metrics,
                   response, action, result, browser, patterns, patternFiles,
                   savedSession, notifications, outcome, loopExit, error,
                   observedUrls, llmCalls, history>>

\* session.duration_seconds
SessionDuration ==
    /\ pc = "use"
    /\ call' = [fn |-> "duration_seconds"]
    /\ ret' = duration_seconds(session)
    /\ pc' = "ret"
    /\ UNCHANGED <<config, sessionFiles, iteration, session,
                   explored_selectors, page_state, observation, metrics,
                   response, action, result, browser, patterns, patternFiles,
                   savedSession, notifications, outcome, loopExit, error,
                   observedUrls, llmCalls, history>>

SessionNext ==
    \/ SessionCreate
    \/ SessionAddAction
    \/ SessionProgress
    \/ SessionComplete
    \/ SessionSave
    \/ SessionLoad
    \/ SessionSuccessRate
    \/ SessionDuration

SessionSpec == SessionInit /\ [][SessionNext]_vars

-----------------------------------------------------------------------------
(* Orchestrator.resume: src/src/core/orchestrator.py lines 260-263, followed
   by the learn run it starts *)

ResumeMaxIter == 1

\* a session an earlier run left in the sessions directory
EarlierSession ==
    [Session_create(FirstUrl, "0a1b2c3d", 0) EXCEPT
        !.status = "completed",
        !.actions = <<CHOOSE a \in SessionRecords : a.selector = "#next">>,
        !.total_elements_found = 1,
        !.elements_explored = 1]

ResumeInit ==
    /\ pc = "resume"
    /\ max_iterations \in 0..ResumeMaxIter
    /\ session = NoSession
    /\ sessionFiles \in {<<>>, Session_save_file(<<>>, EarlierSession)}
    /\ \E id \in SessionIds : call = [fn |-> "resume", id |-> id]
    /\ savedSession = NoSession
    /\ metrics = ConfidenceMetrics(Zero, Zero, Zero, Zero)
    /\ threshold \in Thresholds
    /\ hashv \in HashChoices
    /\ iteration = 0
    /\ explored_selectors = {}
    /\ page_state = [url |-> NoUrl]
    /\ observation = "none"
    /\ response = NoResponse
    /\ action = NoAction
    /\ result = NoResult
    /\ browser = Browser_init
    /\ patterns = <<>>
    /\ patternFiles = <<>>
    /\ history = NoHistory
    /\ notifications = <<>>
    /\ outcome = NoOutcome
    /\ loopExit = "none"
    /\ error = "none"
    /\ observedUrls = {}
    /\ llmCalls = 0
    /\ ret = FALSE

\* line 262: session = Session.load(session_id, sessions_dir), which raises
\* out of resume when there is no such file; line 263: learn(session.target_url),
\* whose first statement creates a new session for that url
Resume ==
    /\ pc = "resume"
    /\ \E r \in {Session_load(sessionFiles, call.id)} :
          IF r.ok
          THEN /\ \E id \in SessionIds :
                     session' = Session_create(r.session.target_url, id, 0)
               /\ pc' = "launch"
               /\ UNCHANGED <<error, outcome>>
          ELSE /\ pc' = "raised"
               /\ error' = r.error
               /\ outcome' = Raised
               /\ session' = session
    /\ UNCHANGED <<config, sessionFiles, iteration, explored_selectors,
                   page_state, observation, metrics, response, action, result,
                   browser, patterns, patternFiles, savedSession,
                   notifications, loopExit, observedUrls, llmCalls,
                   scorerCall, history>>

ResumeNext == Resume \/ Next

ResumeSpec == ResumeInit /\ [][ResumeNext]_vars

-----------------------------------------------------------------------------
(* A MemoryStore over the processes that use one patterns directory:
   src/src/learning/memory_store.py *)

MaxOutcomes == 4
MaxRestarts == 1

\* hash() of the selectors in two processes: str hashes are salted anew in
\* every interpreter (PYTHONHASHSEED), and two selectors may fall on the same
\* residue of HASH_MOD
MemHashChoices ==
    {[s \in Selectors |-> IF s = "#next" THEN 271828 ELSE 314159],
     [s \in Selectors |-> IF s = "#next" THEN 161803 ELSE 141803]}

Outcomes(P) ==
    LET RECURSIVE Sum(_)
        Sum(ids) == IF ids = {} THEN 0
                    ELSE LET id == CHOOSE x \in ids : TRUE
                         IN  P[id].success_count + P[id].failure_count
                                + Sum(ids \ {id})
    IN  Sum(DOMAIN P)

reliability_Pessimistic(p) ==
    LET total == p.success_count + p.failure_count
    IN  IF total = 0 THEN Zero ELSE Frac(p.success_count, total)

\* LearnedPattern.reliability, lines 28-34
reliability(p) ==
    LET total == p.success_count + p.failure_count
    IN  IF total = 0 THEN <<1, 2>> ELSE Frac(p.success_count, total)

load_patterns_AbortsOnUnreadable(files, unreadable) ==
    IF unreadable # {} THEN <<>>
    ELSE [id \in {files[f].pattern_id : f \in DOMAIN files} |->
            CHOOSE p \in {files[f] : f \in DOMAIN files} : p.pattern_id = id]

\* MemoryStore._load_patterns, lines 65-76: every file of the directory that
\* can be opened and parsed, indexed by the pattern_id it holds; the files of
\* unreadable raise in the try and are skipped
load_patterns(files, unreadable) ==
    LET readable == DOMAIN files \ unreadable
    IN  [id \in {files[f].pattern_id : f \in readable} |->
            CHOOSE p \in {files[f] : f \in readable} : p.pattern_id = id]

\* an id no record has
UnknownId == <<Domain, 0>>
OtherDomain == "other.org"

\* MemoryStore.get_patterns_for_domain, lines 86-88
get_patterns_for_domain(P, domain) ==
    {P[id] : id \in {i \in DOMAIN P : P[i].domain = domain}}

MAX_PATTERNS == 10

\* the orders list.sort(key=reliability, reverse=True) can leave a list of
\* these records in, as sequences
SortedByReliability(ps) ==
    {seq \in [1..Cardinality(ps) -> ps] :
        /\ \A i, j \in 1..Cardinality(ps) : i # j => seq[i] # seq[j]
        /\ \A i \in 1..(Cardinality(ps) - 1) :
              RLeq(reliability(seq[i + 1]), reliability(seq[i]))}

\* MemoryStore.get_context_for_llm, lines 103-120: the lines of the context,
\* most reliable first, at most max_patterns of them
get_context_for_llm(P, domain) ==
    LET ps == get_patterns_for_domain(P, domain)
    IN  IF ps = {} THEN {<<"No previously learned patterns for this domain.">>}
        ELSE {<<"## Previously Learned Patterns">> \o
                 [i \in 1..(IF Len(seq) < MAX_PATTERNS THEN Len(seq)
                                                       ELSE MAX_PATTERNS) |->
                     <<seq[i].element_type, seq[i].selector_pattern,
                       reliability(seq[i])>>] : seq \in SortedByReliability(ps)}

MemoryInit ==
    /\ pc = "store"
    /\ hashv \in MemHashChoices
    /\ patterns = <<>>
    /\ patternFiles = <<>>
    /\ history = NoHistory
    /\ call = NoCall
    /\ ret = FALSE
    /\ max_iterations = 0
    /\ threshold \in Thresholds
    /\ iteration = 0
    /\ session = NoSession
    /\ explored_selectors = {}
    /\ page_state = [url |-> NoUrl]
    /\ observation = "none"
    /\ metrics = ConfidenceMetrics(Zero, Zero, Zero, Zero)
    /\ response = NoResponse
    /\ action = NoAction
    /\ result = NoResult
    /\ browser = Browser_init
    /\ savedSession = NoSession
    /\ sessionFiles = <<>>
    /\ notifications = <<>>
    /\ outcome = NoOutcome
    /\ loopExit = "none"
    /\ error = "none"
    /\ observedUrls = {}
    /\ llmCalls = 0

CountedCalls == history.add["#next"] + history.add["#name"] + history.record

\* memory.add_pattern_from_action(domain, element_type, selector, action_type,
\* success): the record is changed in the index, then written to its file;
\* the write may fail
AddPattern ==
    /\ CountedCalls < MaxOutcomes
    /\ \E selector \in Selectors, success \in BOOLEAN :
          LET p == pattern_after(patterns, Domain, "click", selector, "click",
                                 success)
          IN  /\ call' = [fn |-> "add_pattern_from_action",
                          selector |-> selector, success |-> success]
              /\ history' = [history EXCEPT !.add[selector] = @ + 1]
              /\ patterns' = Put(patterns, p)
              /\ \/ /\ patternFiles' = Put(patternFiles, p)
                    /\ ret' = [ok |-> TRUE, pattern_id |-> p.pattern_id]
                 \/ /\ patternFiles' = patternFiles
                    /\ ret' = [ok |-> FALSE, error |-> "OSError"]
    /\ UNCHANGED <<max_iterations, threshold, hashv, sessionFiles, pc,
                   iteration, session, explored_selectors, page_state,
                   observation, metrics, response, action, result, browser,
                   savedSession, notifications, outcome, loopExit, error,
                   observedUrls, llmCalls>>

\* memory.save_pattern(pattern) with a record the caller got from the store
SavePattern ==
    /\ \E id \in DOMAIN patterns :
          /\ call' = [fn |-> "save_pattern", pattern_id |-> id]
          /\ patterns' = Put(patterns, patterns[id])
          /\ \/ /\ patternFiles' = Put(patternFiles, patterns[id])
                /\ ret' = [ok |-> TRUE]
             \/ /\ patternFiles' = patternFiles
                /\ ret' = [ok |-> FALSE, error |-> "OSError"]
    /\ UNCHANGED <<max_iterations, threshold, hashv, sessionFiles, pc,
                   iteration, session, explored_selectors, page_state,
                   observation, metrics, response, action, result, browser,
                   savedSession, notifications, outcome, loopExit, error,
                   observedUrls, llmCalls, history>>

\* memory.record_success(pattern_id), lines 90-95, and
\* memory.record_failure(pattern_id), lines 97-101: nothing for an id the
\* index does not hold, else the counter is raised and the record saved
RecordOutcome ==
    /\ CountedCalls < MaxOutcomes
    /\ \E id \in DOMAIN patterns \cup {UnknownId}, success \in BOOLEAN :
          /\ call' = [fn |-> IF success THEN "record_success"
                                         ELSE "record_failure",
                      pattern_id |-> id]
          /\ IF id \notin DOMAIN patterns
             THEN /\ UNCHANGED <<patterns, patternFiles, history>>
                  /\ ret' = [ok |-> TRUE]
             ELSE LET p == IF success
                           THEN [patterns[id] EXCEPT !.success_count = @ + 1]
                           ELSE [patterns[id] EXCEPT !.failure_count = @ + 1]
                  IN  /\ patterns' = Put(patterns, p)
                      /\ history' = [history EXCEPT !.record = @ + 1]
                      /\ \/ /\ patternFiles' = Put(patternFiles, p)
                            /\ ret' = [ok |-> TRUE]
                         \/ /\ patternFiles' = patternFiles
                            /\ ret' = [ok |-> FALSE, error |-> "OSError"]
    /\ UNCHANGED <<max_iterations, threshold, hashv, sessionFiles, pc,
                   iteration, session, explored_selectors, page_state,
                   observation, metrics, response, action, result, browser,
                   savedSession, notifications, outcome, loopExit, error,
                   observedUrls, llmCalls>>

\* memory.get_patterns_for_domain(domain)
GetPatternsForDomain ==
    /\ \E domain \in {Domain, OtherDomain} :
          /\ call' = [fn |-> "get_patterns_for_domain", domain |-> domain]
          /\ ret' = get_patterns_for_domain(patterns, domain)
    /\ UNCHANGED <<config, sessionFiles, pc, iteration, session,
                   explored_selectors, page_state, observation, metrics,
                   response, action, result, browser, patterns, patternFiles,
                   savedSession, notifications, outcome, loopExit, error,
                   observedUrls, llmCalls, history>>

\* memory.get_context_for_llm(domain)
GetContextForLLM ==
    /\ \E domain \in {Domain, OtherDomain} :
          /\ call' = [fn |-> "get_context_for_llm", domain |-> domain]
          /\ ret' \in get_context_for_llm(patterns, domain)
    /\ UNCHANGED <<config, sessionFiles, pc, iteration, session,
                   explored_selectors, page_state, observation, metrics,
                   response, action, result, browser, patterns, patternFiles,
                   savedSession, notifications, outcome, loopExit, error,
                   observedUrls, llmCalls, history>>

\* pattern.reliability of a record of the index or of a record just built
\* (no outcome recorded yet)
GetReliability ==
    /\ \E p \in {patterns[id] : id \in DOMAIN patterns}
                  \cup {LearnedPattern(pattern_id(Domain, s), Domain, "click",
                                       s, "click") : s \in Selectors} :
          /\ call' = [fn |-> "reliability", pattern |-> p]
          /\ ret' = reliability(p)
    /\ UNCHANGED <<config, sessionFiles, pc, iteration, session,
                   explored_selectors, page_state, observation, metrics,
                   response, action, result, browser, patterns, patternFiles,
                   savedSession, notifications, outcome, loopExit, error,
                   observedUrls, llmCalls, history>>

\* the process ends and a new one builds MemoryStore(patterns_dir); the
\* files of unreadable cannot be opened or parsed this time
Restart ==
    /\ history.restarts < MaxRestarts
    /\ history' = [history EXCEPT !.restarts = @ + 1]
    /\ hashv' \in MemHashChoices
    /\ \E unreadable \in SUBSET DOMAIN patternFiles :
          /\ patterns' = load_patterns(patternFiles, unreadable)
          /\ call' = [fn |-> "MemoryStore", unreadable |-> unreadable]
    /\ ret' = [ok |-> TRUE]
    /\ UNCHANGED <<max_iterations, threshold, sessionFiles, pc, iteration,
                   session, explored_selectors, page_state, observation,
                   metrics, response, action, result, browser, patternFiles,
                   savedSession, notifications, outcome, loopExit, error,
                   observedUrls, llmCalls>>

MemoryNext == AddPattern \/ GetReliability \/ Restart

MemorySpec == MemoryInit /\ [][MemoryNext]_vars

\* every operation of one MemoryStore, in any order
StoreNext ==
    \/ AddPattern
    \/ SavePattern
    \/ RecordOutcome
    \/ GetPatternsForDomain
    \/ GetContextForLLM

StoreSpec == MemoryInit /\ [][StoreNext]_vars

-----------------------------------------------------------------------------
(* Claims *)

\* C1: every invocation of learn gives control back to its caller (a
\* LearningResult, or the exception that escaped the failure handler),
\* the loop never runs more than max_iterations iterations, the session never
\* holds more than max_iterations ActionRecords, the Decision Provider is
\* asked at most max_iterations times and never when max_iterations = 0.
C1_TerminatesWithinBudget ==
    /\ <>Terminated
    /\ [](/\ iteration <= max_iterations
          /\ Len(session.actions) <= max_iterations
          /\ llmCalls <= max_iterations
          /\ (max_iterations = 0 => llmCalls = 0))

C1_Witness ==
    /\ pc = "returned"
    /\ max_iterations = MaxIter
    /\ Len(session.actions) = max_iterations
    /\ loopExit = "exhausted"

\* C2: is_learning_complete returns false whenever unique_pages is below 4,
\* whatever the four sub-scores and the threshold are.
C2_BelowPageFloorIsFalse ==
    (pc = "ret" /\ call.unique_pages < 4) => ret = FALSE

C2_Witness ==
    /\ pc = "ret"
    /\ call.unique_pages = 3
    /\ call.threshold = Zero
    /\ weighted_score(call.metrics) = One
    /\ ret = FALSE

\* C3: with unique_pages at 4 or more, is_learning_complete returns true
\* exactly when the weighted score is at least the threshold; a score equal
\* to the threshold gives true.
C3_AtFloorComparesScore ==
    (pc = "ret" /\ call.unique_pages >= 4) =>
        LET w == weighted_score(call.metrics)
            t == call.threshold
        IN  /\ ret = (t[1] * w[2] <= w[1] * t[2])
            /\ (w = t => ret = TRUE)

C3_Witness ==
    /\ pc = "ret"
    /\ call.unique_pages = 4
    /\ weighted_score(call.metrics) = call.threshold
    /\ call.threshold = <<1, 2>>
    /\ ret = TRUE

\* C4: the loop is left through the stopping rule only when the recorded
\* actions span at least 4 distinct page URLs and the composite score just
\* computed from the session is at least the threshold; the page count given
\* to the rule is the number of distinct page URLs observed so far.
C4_StoppingRuleExit ==
    /\ loopExit = "stopping" =>
          /\ Cardinality({session.actions[i].page_url :
                             i \in 1..Len(session.actions)}) >= 4
          /\ metrics = update(session)
          /\ RLeq(threshold, weighted_score(metrics))
          /\ ret = TRUE
    /\ (pc = "observe" \/ loopExit = "stopping") =>
          call.unique_pages = Cardinality(observedUrls)

C4_Witness ==
    /\ pc = "finish"
    /\ loopExit = "stopping"
    /\ call.unique_pages = 4

\* C5: session.status only moves from active to completed or failed and is
\* never reassigned once it is completed or failed.
C5_StatusNeverReassigned ==
    [][/\ session.status = "active" =>
             session'.status \in {"active", "completed", "failed"}
       /\ session.status \in {"completed", "failed"} =>
             session'.status = session.status]_vars

C5_Witness ==
    /\ pc = "except"
    /\ error = "session_save"
    /\ session.status = "completed"

\* C6: whenever learn returns a LearningResult the status is completed or
\* failed and success is true exactly when it is completed; it is completed
\* when the loop ended by a complete decision, the stopping rule or
\* exhaustion, and failed when an exception escaped launching or the loop.
C6_ResultMatchesStatus ==
    pc = "returned" =>
        /\ session.status \in {"completed", "failed"}
        /\ outcome.success = (session.status = "completed")
        /\ loopExit \in {"complete", "stopping", "exhausted"} =>
              session.status = "completed"
        /\ session.status = "failed" =>
              error \in {"launch", "navigate", "pattern_write"}

C6_Witness ==
    /\ pc = "returned"
    /\ loopExit = "stopping"
    /\ error = "session_save"

\* C7: when the loop uses up max_iterations without a complete decision and
\* without the stopping rule, learn returns success = true with status
\* completed, and the returned metrics and the confidence_score are those of
\* the last Scoring step.
C7_ExhaustionIsSuccess ==
    (Terminated /\ loopExit = "exhausted") =>
        /\ pc = "returned"
        /\ outcome.success = TRUE
        /\ session.status = "completed"
        /\ outcome.metrics = metrics
        /\ session.confidence_score = weighted_score(metrics)

C7_Witness ==
    /\ Terminated
    /\ loopExit = "exhausted"
    /\ error = "session_save"
    /\ Len(session.actions) = MaxIter

\* C8: a complete decision ends the loop in that iteration: the executor is
\* not called for it and no ActionRecord is appended for it, so executions
\* and records stay one behind the decisions, and the run ends with status
\* completed.
C8_CompleteEndsRun ==
    loopExit = "complete" =>
        /\ action.type = "complete"
        /\ browser.executeCalls = llmCalls - 1
        /\ Len(session.actions) = llmCalls - 1
        /\ iteration = llmCalls - 1
        /\ Terminated => session.status = "completed"

C8_Witness ==
    /\ Terminated
    /\ loopExit = "complete"
    /\ error = "session_save"
    /\ llmCalls > 1

\* C9: a failure inside the Decision Provider call never reaches the
\* Orchestrator: decide_action returns the fallback action (wait, no
\* selector, confidence 0.0, reasoning carrying the error text), the step
\* after the decision is the execution of that action, and the rest of that
\* iteration keeps the status active and runs as in any iteration: Scoring
\* leads to the next observation unless the stopping rule ends the loop, and
\* the pause leads to the next value of the range.
C9_ProviderFailureAbsorbed ==
    /\ [][(pc = "loop" /\ LoopRuns /\ ~response'.ok) =>
             /\ action'.type = "wait"
             /\ action'.selector = None
             /\ action'.confidence = Zero
             /\ \E i \in DOMAIN action'.reasoning :
                   action'.reasoning[i] = response'.error
             /\ pc' = "execute"
             /\ session' = session
             /\ error' = error]_vars
    /\ [][(~response.ok /\ pc \in {"execute", "record", "memory", "score",
                                   "observe", "sleep"}) =>
             /\ session'.status = "active"
             /\ error' = "none"
             /\ pc' # "except"
             /\ pc = "score" =>
                   pc' = "observe" \/ (pc' = "finish" /\ loopExit' = "stopping")
             /\ pc = "sleep" => (pc' = "loop" /\ iteration' = iteration + 1)]_vars

C9_Witness ==
    /\ pc = "execute"
    /\ response.ok
    /\ session.status = "active"
    /\ Len(session.actions) >= 1
    /\ session.actions[Len(session.actions)].reasoning
          = <<"Error occurred: ", "timed out", ". Waiting before retry.">>
    /\ session.actions[Len(session.actions)].action_type = "wait"

\* C10: every action given to the Action Executor produces exactly one
\* appended ActionRecord whose success flag is the success the executor
\* reported; a reported failure is recorded with success = false, neither
\* the execution nor the recording leaves the loop, and the status stays
\* active.
C10_EveryActionRecorded ==
    /\ [][pc = "execute" =>
             /\ pc' = "record"
             /\ browser'.executeCalls = browser.executeCalls + 1
             /\ session' = session]_vars
    /\ [][pc = "record" =>
             /\ pc' = "memory"
             /\ Len(session'.actions) = Len(session.actions) + 1
             /\ SubSeq(session'.actions, 1, Len(session.actions)) = session.actions
             /\ session'.actions[Len(session'.actions)].success = result.success
             /\ session'.status = "active"
             /\ error' = "none"]_vars
    /\ [](Len(session.actions) =
             browser.executeCalls - (IF pc = "record" THEN 1 ELSE 0))

C10_Witness ==
    /\ pc = "execute"
    /\ session.status = "active"
    /\ Len(session.actions) >= 1
    /\ session.actions[Len(session.actions)].success = FALSE
    /\ session.actions[Len(session.actions)].action_type = "click"

\* C11: when get_page_state fails inside the loop the run is not aborted:
\* the page state and the session (total_elements_found included) are left
\* as they were, control goes on to the pause and the loop head, and the
\* record of the next iteration carries the URL of the last page state that
\* was obtained.
C11_ObservationFailureTolerated ==
    /\ [][(pc = "observe" /\ observation' = "failed") =>
             /\ page_state' = page_state
             /\ session' = session
             /\ pc' = "sleep"
             /\ error' = "none"]_vars
    /\ [][(observation = "failed" /\ pc \in {"sleep", "loop"}) =>
             /\ page_state' = page_state
             /\ session'.total_elements_found = session.total_elements_found
             /\ session'.status = "active"
             /\ pc' \in {"loop", "execute", "finish"}
             /\ error' = "none"]_vars
    /\ [][(observation = "failed" /\ pc = "record") =>
             session'.actions[Len(session'.actions)].page_url = page_state.url]_vars

C11_Witness ==
    /\ pc = "execute"
    /\ observation = "failed"
    /\ page_state.url # browser.url
    /\ iteration >= 1
    /\ session.status = "active"

\* C12: a failure to write a Pattern record during Recording does not make
\* the run end failed: control does not reach the failure handler because of
\* it and the status does not become failed.
C12_PatternWriteFailureAbsorbed ==
    error = "pattern_write" => (pc # "except" /\ session.status # "failed")

C12_Witness ==
    /\ pc = "returned"
    /\ error = "pattern_write"
    /\ session.status = "failed"
    /\ outcome.success = FALSE
    /\ patterns # patternFiles

C14_ClosedExactlyOnce ==
    /\ [](browser.closeCalls = (IF Terminated THEN 1 ELSE 0))
    /\ [][browser.closeCalls >= 1 =>
             (browser' = browser /\ page_state' = page_state
                /\ observation' = observation)]_vars
    /\ [][browser'.closeCalls # browser.closeCalls =>
             (pc = "close" /\ Terminated')]_vars

C14_Witness ==
    /\ pc = "raised"
    /\ browser.closeCalls = 1
    /\ browser.executeCalls >= 1
    /\ outcome = Raised

\* C15: whenever learn returns a LearningResult, the persisted snapshot is the
\* session as returned, with its terminal status, and exactly one
\* notification has been issued for the run: a completion notification when
\* the status is completed, an error notification when it is failed; no
\* notification is ever issued before a snapshot with the current status has
\* been persisted.
C15_PersistThenNotify ==
    /\ pc = "returned" =>
          /\ session.status \in {"completed", "failed"}
          /\ savedSession = session
          /\ Len(notifications) = 1
          /\ notifications[1].kind =
                (IF session.status = "completed" THEN "complete" ELSE "error")
    /\ notifications # <<>> =>
          (savedSession # NoSession /\ savedSession.status = session.status)

C15_Witness ==
    /\ pc = "returned"
    /\ session.status = "failed"
    /\ error = "session_save"
    /\ savedSession = session
    /\ Len(notifications) = 1

\* C16: a delivery failure of the Notification Sink shows only as the false
\* value the send returns and never changes the outcome of the run: once the
\* completion notification has been issued, delivered or not, the status is
\* completed, the result is success = true with the loop's metrics, and
\* learn returns it; once the error notification has been issued, delivered
\* or not, the result is the failure result.
C16_DeliveryFailureIgnored ==
    notifications # <<>> =>
        /\ Len(notifications) = 1
        /\ pc \in {"close", "returned"}
        /\ notifications[1].kind = "complete" =>
              /\ session.status = "completed"
              /\ outcome = LearningResult(TRUE, metrics, Report)
              /\ loopExit \in {"complete", "stopping", "exhausted"}
        /\ notifications[1].kind = "error" =>
              /\ session.status = "failed"
              /\ outcome.kind = "result"
              /\ outcome.success = FALSE

C16_Witness ==
    /\ pc = "returned"
    /\ notifications # <<>>
    /\ notifications[1].kind = "complete"
    /\ ~notifications[1].delivered
    /\ outcome.success = TRUE
    /\ session.status = "completed"

\* C17: the session's action sequence is append-only: every step of a run
\* either leaves it as it is or is the Recording step, which adds exactly
\* one record, the one built for the action just executed, at the end and
\* leaves the records already there in place and unchanged.
C17_ActionsAppendOnly ==
    [][\/ session'.actions = session.actions
       \/ /\ pc = "record"
          /\ Len(session'.actions) = Len(session.actions) + 1
          /\ SubSeq(session'.actions, 1, Len(session.actions)) = session.actions
          /\ session'.actions[Len(session'.actions)] =
                [action_type |-> action.type, selector |-> action.selector,
                 value |-> action.value, reasoning |-> action.reasoning,
                 success |-> result.success, page_url |-> page_state.url]]_vars

C17_Witness ==
    /\ Len(session.actions) = MaxIter
    /\ session.actions[1].action_type = "type"
    /\ session.actions[2].action_type = "wait"
    /\ session.actions[3].action_type = "click"
    /\ session.actions[3].page_url # session.actions[MaxIter].page_url

\* C18: total_elements_found and elements_explored never decrease;
\* total_elements_found changes only at an observation that succeeded, and
\* then to a strictly larger value; elements_explored always equals the
\* number of distinct selectors, other than None and the empty string, among
\* the session's ActionRecords.
C18_CountersMonotone ==
    /\ [][/\ session'.total_elements_found >= session.total_elements_found
          /\ session'.elements_explored >= session.elements_explored
          /\ session'.total_elements_found # session.total_elements_found =>
                /\ pc \in {"navigate", "observe"}
                /\ observation' = "ok"
                /\ session'.total_elements_found > session.total_elements_found]_vars
    /\ [](session.elements_explored =
             Cardinality({session.actions[i].selector :
                             i \in 1..Len(session.actions)} \ {None, ""}))

C18_Witness ==
    /\ pc = "memory"
    /\ session.elements_explored = 2
    /\ Len(session.actions) = 4
    /\ session.actions[4].selector = ""
    /\ \E i \in 1..3 : session.actions[i].selector = None
    /\ session.total_elements_found = MaxElems

\* C19: for every session, whatever its action history and its counters
\* (elements_explored above total_elements_found included), each of the four
\* sub-scores ConfidenceScorer.update returns lies in [0,1].
C19_SubScoresInUnitInterval ==
    Len(session.actions) >= 1 =>
        /\ metrics = update(session)
        /\ \A x \in {metrics.coverage_score, metrics.success_rate,
                     metrics.pattern_stability, metrics.exploration_depth} :
              (0 <= x[1] /\ x[1] <= x[2])

C19_Witness ==
    /\ Len(session.actions) = MaxActions
    /\ session.elements_explored > session.total_elements_found
    /\ session.total_elements_found > 0
    /\ metrics.coverage_score = One
    /\ metrics.pattern_stability = One
    /\ metrics.success_rate # One

\* C20: for sub-scores in [0,1], weighted_score is
\* (30*coverage + 25*success_rate + 25*pattern_stability +
\* 20*exploration_depth) / 100 and lies in [0,1]; the sub-scores
\* (0.8, 0.9, 0.7, 0.6) give 0.76.
C20_WeightedScoreIsLinear ==
    pc = "ret" =>
        LET c == metrics.coverage_score
            s == metrics.success_rate
            p == metrics.pattern_stability
            e == metrics.exploration_depth
            w == session.confidence_score
            num == 30 * c[1] * s[2] * p[2] * e[2] + 25 * s[1] * c[2] * p[2] * e[2]
                   + 25 * p[1] * c[2] * s[2] * e[2] + 20 * e[1] * c[2] * s[2] * p[2]
            den == 100 * c[2] * s[2] * p[2] * e[2]
        IN  /\ w[1] * den = num * w[2]
            /\ 0 <= w[1] /\ w[1] <= w[2]
            /\ (c = <<4, 5>> /\ s = <<9, 10>> /\ p = <<7, 10>> /\ e = <<3, 5>>)
                  => w = <<19, 25>>
            /\ (c = One /\ s = One /\ p = One /\ e = One) => w = One

C20_Witness ==
    /\ pc = "ret"
    /\ metrics = ConfidenceMetrics(<<4, 5>>, <<9, 10>>, <<7, 10>>, <<3, 5>>)
    /\ session.confidence_score = <<19, 25>>

\* C21: the coverage sub-score update returns is 0 when total_elements_found
\* is 0, whatever elements_explored is, and otherwise
\* min(elements_explored / total_elements_found, 1).
C21_CoverageFormula ==
    Len(session.actions) >= 1 =>
        LET c == metrics.coverage_score
            t == session.total_elements_found
            x == session.elements_explored
        IN  /\ c[2] > 0
            /\ t = 0 => c[1] = 0
            /\ (t > 0 /\ x >= t) => c[1] = c[2]
            /\ (t > 0 /\ x < t) => c[1] * t = x * c[2]

C21_Witness ==
    /\ Len(session.actions) >= 1
    /\ session.total_elements_found = 3
    /\ session.elements_explored = 2
    /\ metrics.coverage_score = <<2, 3>>

\* C22: pattern_stability is exactly 0.3 for every session with fewer than 5
\* actions, whatever their outcomes; with n >= 5 actions it is
\* min(r + min(k/4, 0.3), 1), r the share of successes among the last
\* min(10, n) actions and k the number of distinct action kinds of the whole
\* session.
C22_PatternStabilityFormula ==
    Len(session.actions) >= 1 =>
        LET n == Len(session.actions)
            w == IF n < 10 THEN n ELSE 10
            ok == Cardinality({i \in (n - w + 1)..n : session.actions[i].success})
            k == Cardinality({session.actions[i].action_type : i \in 1..n})
            p == metrics.pattern_stability
            \* min(k/4, 0.3) in twentieths
            bonus == IF 5 * k < 6 THEN 5 * k ELSE 6
            \* r + bonus as a fraction over 20 * w
            sum == 20 * ok + bonus * w
        IN  /\ p[2] > 0
            /\ n < 5 => p = <<3, 10>>
            /\ (n >= 5 /\ sum >= 20 * w) => p[1] = p[2]
            /\ (n >= 5 /\ sum < 20 * w) => p[1] * 20 * w = sum * p[2]

C22_Witness ==
    /\ Len(session.actions) = MaxActions
    /\ session.actions[1].success
    /\ \A i \in 2..MaxActions : ~session.actions[i].success
    /\ metrics.pattern_stability = <<3, 10>>
    /\ metrics.success_rate # Zero

C24_DefaultThresholdStops ==
    (/\ pc = "ret"
     /\ call.unique_pages = 4
     /\ call.metrics = ConfidenceMetrics(<<4, 5>>, <<9, 10>>, One, One))
        => (call.threshold = <<17, 20>> /\ ret = TRUE)

C24_Witness ==
    /\ pc = "ret"
    /\ call.unique_pages = 4
    /\ call.metrics = ConfidenceMetrics(<<4, 5>>, <<9, 10>>, One, One)
    /\ weighted_score(call.metrics) = <<183, 200>>
    /\ call.threshold = <<19, 20>>
    /\ ret = FALSE

\* C25: Session.create(url) yields a session with status active, no actions,
\* confidence score 0, both element counters 0 and target_url = url; the
\* success rate of a session is exactly 0 when it has no actions and the
\* number of successful records over the number of records otherwise.
C25_CreateAndSuccessRate ==
    [][/\ SessionCreate =>
            /\ session'.status = "active"
            /\ session'.actions = <<>>
            /\ session'.confidence_score = Zero
            /\ session'.total_elements_found = 0
            /\ session'.elements_explored = 0
            /\ session'.target_url = call'.url
       /\ SessionSuccessRate =>
            LET n == Len(session.actions)
                ok == Cardinality({i \in 1..n : session.actions[i].success})
            IN  /\ n = 0 => ret' = Zero
                /\ n > 0 => (ret'[2] > 0 /\ ret'[1] * n = ok * ret'[2])]_vars

C25_Witness ==
    /\ pc = "ret"
    /\ call.fn = "success_rate"
    /\ Len(session.actions) = 2
    /\ session.actions[1].success /\ ~session.actions[2].success
    /\ ret = <<1, 2>>
    /\ session.target_url = FirstUrl + 1

\* C26: duration_seconds is exactly 0 for a session with fewer than two
\* actions and otherwise the time of the last action's timestamp minus the
\* time of the first action's timestamp.
C26_DurationFormula ==
    [][SessionDuration =>
         LET n == Len(session.actions)
             t(i) == session.actions[i].timestamp[1] * 60
                        + session.actions[i].timestamp[2]
         IN  /\ n < 2 => ret' = 0
             /\ n >= 2 => ret' = t(n) - t(1)]_vars

C26_Witness ==
    /\ pc = "ret"
    /\ call.fn = "duration_seconds"
    /\ Len(session.actions) = 2
    /\ session.actions[1].timestamp = <<0, 59>>
    /\ session.actions[2].timestamp = <<2, 5>>
    /\ ret = 66

\* C27: loading a session by its id after it was saved yields a session
\* equal to the saved one in every field: id, target URL, creation time,
\* status, the ordered action list with every field of every record,
\* confidence score, both counters and metadata.
C27_SaveLoadRoundTrip ==
    (pc = "ret" /\ call.fn = "load" /\ call.id = session.session_id)
        => (ret.ok /\ ret.session = savedSession)

C27_Witness ==
    /\ pc = "ret"
    /\ call.fn = "load"
    /\ ret.session = session
    /\ Len(session.actions) = 2
    /\ session.actions[1].screenshot_path = "shot.png"
    /\ session.actions[2].selector = None
    /\ session.metadata # <<>>
    /\ session.status = "completed"
    /\ sessionFiles[session.session_id] # Session_to_dict(session)

\* C28: Session.load fails with a not-found error when no session of that id
\* was persisted, and Orchestrator.resume with such an id raises that error
\* before any browser launch, without creating or persisting a session and
\* without any notification.
C28_ResumeUnknownIdRaises ==
    /\ (pc # "resume" /\ call.fn = "resume"
            /\ call.id \notin DOMAIN sessionFiles)
          => error = "FileNotFoundError"
    /\ error = "FileNotFoundError"
          => /\ pc = "raised"
             /\ outcome = Raised
             /\ browser = Browser_init
             /\ session = NoSession
             /\ savedSession = NoSession
             /\ sessionFiles \in {<<>>, Session_save_file(<<>>, EarlierSession)}
             /\ notifications = <<>>
             /\ llmCalls = 0

C28_Witness ==
    /\ pc = "raised"
    /\ error = "FileNotFoundError"
    /\ call.id = "4e5f6a7b"
    /\ DOMAIN sessionFiles = {"0a1b2c3d"}
    /\ ~browser.launched

\* C29: add_pattern_from_action gives a (domain, selector) pair the same
\* pattern id in every call, within one process and after a restart on the
\* same directory: the directory never holds two records of one pair, and a
\* call returns the id of the record the directory already holds for its pair.
C29_PatternIdStable ==
    /\ \A i, j \in DOMAIN patternFiles :
          (/\ patternFiles[i].domain = patternFiles[j].domain
           /\ patternFiles[i].selector_pattern = patternFiles[j].selector_pattern)
              => i = j
    /\ (call.fn = "add_pattern_from_action" /\ ret.ok) =>
          \A i \in DOMAIN patternFiles :
              patternFiles[i].selector_pattern = call.selector
                  => i = ret.pattern_id

C29_Witness ==
    /\ call.fn = "add_pattern_from_action"
    /\ ret.ok
    /\ call.selector = "#next"
    /\ Cardinality({i \in DOMAIN patternFiles :
                      patternFiles[i].selector_pattern = "#next"}) = 2
    /\ \A i \in DOMAIN patternFiles :
          patternFiles[i].success_count + patternFiles[i].failure_count = 1

\* C30: the reliability of a pattern record is success_count /
\* (success_count + failure_count) when it holds at least one outcome and 0.5
\* when it holds none; it lies in [0,1], and it is 0.75 for 3 successes and
\* 1 failure.
C30_ReliabilityFormula ==
    call.fn = "reliability" =>
        LET ok == call.pattern.success_count
            ko == call.pattern.failure_count
        IN  /\ ret[2] > 0
            /\ ok + ko = 0 => ret = <<1, 2>>
            /\ ok + ko > 0 => ret[1] * (ok + ko) = ok * ret[2]
            /\ 0 <= ret[1] /\ ret[1] <= ret[2]
            /\ (ok = 3 /\ ko = 1) => ret = <<3, 4>>

C30_Witness ==
    /\ call.fn = "reliability"
    /\ call.pattern.selector_pattern = "#next"
    /\ call.pattern.success_count = 3
    /\ call.pattern.failure_count = 1
    /\ call.pattern \in {patterns[id] : id \in DOMAIN patterns}
    /\ ret = <<3, 4>>

\* C31: every call of add_pattern_from_action creates the record of its id
\* if the index does not hold it (counters from zero), then raises exactly
\* one counter of that record by exactly one (success_count for a success,
\* failure_count otherwise) and leaves every other record of the index
\* unchanged; when the call returns, the file of that record equals the
\* record of the index and no other file has changed.
C31_AddRaisesOneCounter ==
    [][AddPattern =>
        LET id == pattern_id(Domain, call'.selector)
            known == id \in DOMAIN patterns
            ok0 == IF known THEN patterns[id].success_count ELSE 0
            ko0 == IF known THEN patterns[id].failure_count ELSE 0
        IN  /\ DOMAIN patterns' = DOMAIN patterns \cup {id}
            /\ patterns'[id].success_count
                  = ok0 + (IF call'.success THEN 1 ELSE 0)
            /\ patterns'[id].failure_count
                  = ko0 + (IF call'.success THEN 0 ELSE 1)
            /\ ~known => /\ patterns'[id].selector_pattern = call'.selector
                         /\ patterns'[id].domain = Domain
            /\ known => /\ patterns'[id].selector_pattern
                              = patterns[id].selector_pattern
                        /\ patterns'[id].domain = patterns[id].domain
            /\ \A j \in DOMAIN patterns \ {id} : patterns'[j] = patterns[j]
            /\ ret'.ok =>
                  /\ ret'.pattern_id = id
                  /\ id \in DOMAIN patternFiles'
                  /\ patternFiles'[id] = patterns'[id]
                  /\ DOMAIN patternFiles' = DOMAIN patternFiles \cup {id}
                  /\ \A j \in DOMAIN patternFiles \ {id} :
                        patternFiles'[j] = patternFiles[j]]_vars

C31_Witness ==
    /\ call.fn = "add_pattern_from_action"
    /\ ret.ok
    /\ ~call.success
    /\ Cardinality(DOMAIN patterns) = 2
    /\ patterns[ret.pattern_id].success_count = 1
    /\ patterns[ret.pattern_id].failure_count = 1
    /\ patternFiles = patterns

\* C32: no operation of a MemoryStore (save_pattern, add_pattern_from_action,
\* record_success, record_failure, get_patterns_for_domain,
\* get_context_for_llm) removes a pattern id from the in-memory index, and
\* record_success / record_failure with an id the index does not hold leave
\* the index and the files as they were.
C32_IndexOnlyGrows ==
    [][StoreNext =>
        /\ DOMAIN patterns \subseteq DOMAIN patterns'
        /\ (/\ call'.fn \in {"record_success", "record_failure"}
            /\ call'.pattern_id \notin DOMAIN patterns)
              => (patterns' = patterns /\ patternFiles' = patternFiles)
        /\ call'.fn \in {"get_patterns_for_domain", "get_context_for_llm"}
              => (patterns' = patterns /\ patternFiles' = patternFiles)]_vars

C32_Witness ==
    /\ call.fn = "record_failure"
    /\ call.pattern_id = UnknownId
    /\ Cardinality(DOMAIN patterns) = 2
    /\ history.record = 1
    /\ ret.ok

\* C33: building a MemoryStore does not fail because of pattern files that
\* cannot be read or parsed: those files are skipped and the index holds
\* exactly the records of the other files, each under its pattern id.
C33_UnreadableFilesSkipped ==
    call.fn = "MemoryStore" =>
        LET readable == DOMAIN patternFiles \ call.unreadable
        IN  /\ ret.ok
            /\ DOMAIN patterns = {patternFiles[f].pattern_id : f \in readable}
            /\ \A f \in readable :
                  patterns[patternFiles[f].pattern_id] = patternFiles[f]

C33_Witness ==
    /\ call.fn = "MemoryStore"
    /\ Cardinality(DOMAIN patternFiles) = 2
    /\ Cardinality(call.unreadable) = 1
    /\ Cardinality(DOMAIN patterns) = 1
    /\ ret.ok

\* C34: in the Recording step an action that carries a selector adds the
\* selector to the explored set (elements_explored being its size) and
\* records exactly one outcome in Pattern Memory, under the executor's
\* success flag, for a successful and for a failed action alike; an action
\* without a selector leaves the explored set, elements_explored and Pattern
\* Memory unchanged.
C34_RecordingFrame ==
    [][LET sel == action.selector
           carries == sel # None /\ sel # ""
       IN  /\ Record =>
                IF carries
                THEN /\ explored_selectors' = explored_selectors \cup {sel}
                     /\ session'.elements_explored
                           = Cardinality(explored_selectors')
                ELSE /\ explored_selectors' = explored_selectors
                     /\ session'.elements_explored = session.elements_explored
           /\ Remember =>
                IF carries
                THEN LET id == pattern_id(Domain, sel)
                         ok0 == IF id \in DOMAIN patterns
                                THEN patterns[id].success_count ELSE 0
                         ko0 == IF id \in DOMAIN patterns
                                THEN patterns[id].failure_count ELSE 0
                     IN  /\ Outcomes(patterns') = Outcomes(patterns) + 1
                         /\ patterns'[id].selector_pattern = sel
                         /\ patterns'[id].success_count
                               = ok0 + (IF result.success THEN 1 ELSE 0)
                         /\ patterns'[id].failure_count
                               = ko0 + (IF result.success THEN 0 ELSE 1)
                         /\ pc' = "score" => patternFiles' = patterns'
                         /\ explored_selectors' = explored_selectors
                ELSE /\ patterns' = patterns
                     /\ patternFiles' = patternFiles
                     /\ explored_selectors' = explored_selectors
                     /\ session' = session]_vars

C34_Witness ==
    /\ pc = "score"
    /\ action.selector = "#next"
    /\ ~result.success
    /\ explored_selectors = {"#next", "#name"}
    /\ session.elements_explored = 2
    /\ Outcomes(patterns) = 3
    /\ patterns[pattern_id(Domain, "#next")].failure_count = 1
    /\ \E i \in 1..Len(session.actions) : session.actions[i].selector = ""

\* C35: one exploration step is in flight at a time and the steps of an
\* iteration come in the order decide, execute, record, update pattern
\* memory, score and stopping rule, observe: the executor is called at most
\* once per decision and never before the decision has returned, and a
\* decision is requested only when the outcome of every earlier action has
\* been recorded.
C35_StepsInOrder ==
    [][/\ llmCalls' \in {llmCalls, llmCalls + 1}
       /\ browser'.executeCalls
             \in {browser.executeCalls, browser.executeCalls + 1}
       /\ Len(session'.actions)
             \in {Len(session.actions), Len(session.actions) + 1}
       \* a decision is requested from the head of the loop only, with every
       \* earlier action executed and recorded
       /\ llmCalls' # llmCalls =>
             /\ pc = "loop" /\ pc' \in {"execute", "finish"}
             /\ browser.executeCalls = llmCalls
             /\ Len(session.actions) = llmCalls
       \* the executor is called once, for the decision just returned
       /\ browser'.executeCalls # browser.executeCalls =>
             /\ pc = "execute" /\ pc' = "record"
             /\ browser'.executeCalls = llmCalls
             /\ Len(session.actions) = browser.executeCalls
       \* its outcome is recorded next
       /\ Len(session'.actions) # Len(session.actions) =>
             /\ pc = "record" /\ pc' = "memory"
             /\ Len(session'.actions) = browser.executeCalls
       \* then pattern memory, scoring with the stopping rule, observation
       /\ (pc = "execute" /\ pc' # pc) => pc' = "record"
       /\ (pc = "record" /\ pc' # pc) => pc' = "memory"
       /\ (pc = "memory" /\ pc' # pc) => pc' \in {"score", "except"}
       /\ (pc = "score" /\ pc' # pc) => pc' \in {"observe", "finish"}
       /\ (pc = "observe" /\ pc' # pc) => pc' = "sleep"
       /\ (pc = "sleep" /\ pc' # pc) => pc' = "loop"
       /\ (pc = "loop" /\ pc' # pc) => pc' \in {"execute", "finish"}
       /\ (pc' = "execute" /\ pc' # pc) => llmCalls' = llmCalls + 1
       /\ (pc' = "score" /\ pc' # pc) => pc = "memory"
       /\ (pc' = "observe" /\ pc' # pc) =>
             (pc = "score" /\ call'.fn = "is_learning_complete" /\ ~ret')]_vars

C35_Witness ==
    /\ pc = "execute"
    /\ llmCalls = 3
    /\ browser.executeCalls = 2
    /\ Len(session.actions) = 2
    /\ Cardinality(DOMAIN patterns) = 2

\* C36: when learn returns with status completed, the persisted
\* confidence_score is the composite that ConfidenceScorer.update yields for
\* the persisted session's own actions, elements_explored and
\* total_elements_found, also when the last observation raised
\* total_elements_found after the last Scoring step and the loop then ended
\* by a complete decision or by exhausting the budget.
C36_PersistedScoreCurrent ==
    (pc = "returned" /\ outcome.success /\ savedSession.status = "completed")
        => savedSession.confidence_score
               = weighted_score(update(savedSession))

\* a completed run with at least one Scoring step, whose last observation
\* raised total_elements_found before the loop ended without scoring again
C36_Witness ==
    /\ pc = "returned" /\ outcome.success
    /\ savedSession.status = "completed"
    /\ loopExit \in {"complete", "exhausted"}
    /\ savedSession.actions # <<>>
    /\ observation = "ok"
    /\ savedSession.total_elements_found = MaxElems
    /\ savedSession.confidence_score = weighted_score(metrics)
    /\ savedSession.confidence_score # weighted_score(update(savedSession))

\* C37: when the run ended because the stopping rule was satisfied in the
\* loop (at least 4 distinct pages, composite >= threshold), learn generates
\* the summary report: the report of the returned LearningResult and the
\* report handed to the completion notification are not empty.
C37_ReportOnStoppingRule ==
    (pc = "returned" /\ outcome.success /\ loopExit = "stopping")
        => /\ outcome.report # ""
           /\ notifications # <<>>
           /\ notifications[Len(notifications)].kind = "complete"
           /\ notifications[Len(notifications)].report # ""

\* a run that the stopping rule ended returned its result
C37_Witness ==
    /\ pc = "returned" /\ outcome.success
    /\ loopExit = "stopping"
    /\ Cardinality(unique_urls(session)) >= MIN_PAGES_REQUIRED
    /\ RLeq(threshold, weighted_score(metrics))
    /\ outcome.report = ""

\* C38: in a store that was not rebuilt, the success_count + failure_count of
\* every record equals the number of outcomes recorded through
\* add_pattern_from_action for that record's own (domain, selector_pattern):
\* the outcomes of two different selectors are never accumulated into one
\* record, and a call accumulates into a record of its own selector.
C38_OutcomesPerSelector ==
    history.restarts = 0 =>
        /\ \A id \in DOMAIN patterns :
              patterns[id].success_count + patterns[id].failure_count
                  = history.add[patterns[id].selector_pattern]
        /\ (call.fn = "add_pattern_from_action" /\ ret.ok) =>
              patterns[ret.pattern_id].selector_pattern = call.selector

\* one outcome of "#next" and one of "#name" went into the record of "#next"
C38_Witness ==
    /\ history.restarts = 0
    /\ history.add["#next"] = 1 /\ history.add["#name"] = 1
    /\ call.fn = "add_pattern_from_action" /\ ret.ok
    /\ call.selector = "#name"
    /\ DOMAIN patterns = {ret.pattern_id}
    /\ patterns[ret.pattern_id].selector_pattern = "#next"
    /\ patterns[ret.pattern_id].success_count
         + patterns[ret.pattern_id].failure_count = 2

\* C39: when the write of the record file fails inside save_pattern or
\* add_pattern_from_action, the error is raised to the caller and the
\* in-memory index is as before the call (no new key, no changed counter);
\* an index that agreed with the files still agrees, and no file has changed.
C39_FailedWriteLeavesIndex ==
    [][((AddPattern \/ SavePattern) /\ ~ret'.ok) =>
          /\ ret'.error = "OSError"
          /\ patterns' = patterns
          /\ patternFiles' = patternFiles
          /\ (patterns = patternFiles => patterns' = patternFiles')]_vars

\* a failed add_pattern_from_action left a record in the index that no
\* file holds
C39_Witness ==
    /\ call.fn = "add_pattern_from_action"
    /\ ~ret.ok /\ ret.error = "OSError"
    /\ patternFiles = <<>>
    /\ DOMAIN patterns = {pattern_id(Domain, call.selector)}
    /\ Outcomes(patterns) = 1

\* C40: Orchestrator.resume(session_id) resumes the saved session: the
\* session of the LearningResult it returns has the given session_id, and its
\* action sequence has the saved session's action sequence as a prefix.  (A
\* resume that got as far as a result was given the id of a file of the
\* sessions directory.)
C40_ResumeContinuesSaved ==
    (pc = "returned" /\ outcome.kind = "result") =>
        \A id \in DOMAIN sessionFiles :
            LET saved == Session_load(sessionFiles, id).session
            IN  /\ session.session_id = id
                /\ Len(session.actions) >= Len(saved.actions)
                /\ \A i \in 1..Len(saved.actions) :
                      /\ session.actions[i].action_type
                            = saved.actions[i].action_type
                      /\ session.actions[i].selector = saved.actions[i].selector
                      /\ session.actions[i].success = saved.actions[i].success

\* resume of the saved session returned a result whose session has another
\* id and none of the saved actions
C40_Witness ==
    /\ pc = "returned" /\ outcome.kind = "result"
    /\ DOMAIN sessionFiles = {"0a1b2c3d"}
    /\ Len(Session_load(sessionFiles, "0a1b2c3d").session.actions) = 1
    /\ session.session_id = "4e5f6a7b"
    /\ session.actions = <<>>
    /\ session.target_url = EarlierSession.target_url

====
